---- MODULE Spec2Model ----
(***************************************************************************)
(* qrm-logger: the capture pipeline (Pipeline.execute_capture / execute /  *)
(* process_sets), the counter store, the recorder and the FFT frame sink,  *)
(* as threads that interleave at the statements of the Python source.      *)
(*                                                                         *)
(* Threads: the callers of execute_capture ("cron": the APScheduler        *)
(* worker, "http": the thread spawned by POST /start), the HTTP worker     *)
(* serving POST /stop, and the GNU Radio streaming thread that calls       *)
(* fft_record_sink.work.  None of the shared objects is guarded by a lock  *)
(* in the source, so every shared read and write is a step of its own.     *)
(***************************************************************************)
EXTENDS Integers, Sequences, FiniteSets, TLC

\* ---- bounds of the model ----
MaxBatches == 2        \* execute_capture calls that pass the guard
MaxStops   == 1        \* POST /stop requests
MaxFrames  == 1        \* frames the SDR delivers inside one run's time budget
RecTime    == 1        \* run.rec_time_ms, in clock ticks
MaxControls == 1       \* POST /sdr-control requests
TicksPerDay == 2       \* clock readings of one calendar day
MaxHours == 1          \* changes of the wall-clock hour
GainReach == 2         \* how far the configured gains lie outside the device ranges
MaxGridRows == 3       \* counters in the metadata of one day
MaxRoiEntries == 2     \* entries of the ROI file

\* ---- program constants ----
NumDbConfigs == 7      \* len(db_configs) in calibration mode
BaseMinDb == -85       \* config "min_db"
BaseMaxDb == -60       \* config "max_db"
KeepRawFiles == FALSE  \* paths.keep_raw_files
Callers == {"cron", "http"}
Stoppers == Callers \cup {"stop"}     \* threads that may execute sink.stop_now
\* configurations checked.  plan: len(specs) of the enabled capture sets in
\* plan order; scheduler: Scheduler.running; shutdown: the values of
\* sdr_shutdown_after_recording; and what the environment does: how many
\* execute_capture calls pass the guard, how many POST /stop requests arrive,
\* the is_calibration values POST /start carries, and how many POST
\* /sdr-control requests arrive; roi: the values of the ROI store's
\* processing_enabled; timeslice: the values of "timeslice_autogenerate"
Configs ==
  { [plan |-> <<5>>, scheduler |-> FALSE, shutdown |-> {TRUE},
     batches |-> 1, stops |-> MaxStops, calibration |-> {FALSE}, ctl |-> 0, roi |-> {FALSE}, timeslice |-> {FALSE}],
    [plan |-> <<2, 1>>, scheduler |-> FALSE, shutdown |-> BOOLEAN,
     batches |-> 1, stops |-> MaxStops, calibration |-> BOOLEAN, ctl |-> 0, roi |-> BOOLEAN, timeslice |-> {FALSE}],
    [plan |-> <<1>>, scheduler |-> FALSE, shutdown |-> BOOLEAN,
     batches |-> MaxBatches, stops |-> MaxStops, calibration |-> BOOLEAN, ctl |-> 0, roi |-> {FALSE}, timeslice |-> {FALSE}],
    [plan |-> <<1>>, scheduler |-> TRUE, shutdown |-> {TRUE},
     batches |-> MaxBatches, stops |-> 0, calibration |-> {FALSE}, ctl |-> 0, roi |-> {FALSE}, timeslice |-> BOOLEAN],
    [plan |-> <<1>>, scheduler |-> FALSE, shutdown |-> BOOLEAN,
     batches |-> 1, stops |-> 0, calibration |-> {FALSE}, ctl |-> MaxControls, roi |-> {FALSE}, timeslice |-> {FALSE}],
    [plan |-> <<2>>, scheduler |-> FALSE, shutdown |-> {FALSE},
     batches |-> MaxBatches, stops |-> MaxStops, calibration |-> {FALSE}, ctl |-> 0, roi |-> {FALSE}, timeslice |-> {FALSE}] }
Plans == {cf.plan : cf \in Configs}

None == "None"
StartStamp == 1             \* time.time() at the start of a batch
DefaultRecTime == 5000      \* fft_record_sink.rec_time before the first start_record
NoRun == <<>>               \* current_run is None
\* data_exporter.py:287 the plot types, in the order of the loop
PlotTypes == <<"waterfall", "average">>
\* the time-slice PNGs of the capture set: <<plot type, anchor hour>>
TimeSliceFiles == (1..Len(PlotTypes)) \X (0..MaxHours)
\* ts_mtime of a time-slice PNG that does not exist
NoFile == -1

RECURSIVE SumSeq(_)
SumSeq(s) == IF s = <<>> THEN 0 ELSE Head(s) + SumSeq(Tail(s))

MaxRuns == CHOOSE n \in {SumSeq(p) : p \in Plans} : \A p \in Plans : SumSeq(p) <= n
\* a run of the batch that caller c is executing: <<c, position in the sweep>>
RunKeys == Callers \X (1..MaxRuns)

VARIABLES
  \* Pipeline singleton
  recording, recording_status, record_start_time, error_text,
  \* counter store (utils/counter.py)
  counter_value, counter_file,
  \* Recorder singleton
  receiver, rec_recording, rec_error_text, stop_requested,
  \* fft_record_sink of the current receiver
  is_recording, is_finalizing, start_time, elapsed, current_run, data,
  \* per batch objects: RecordingStatus and CaptureParams
  status, params,
  \* CaptureRun.raw_filename, the matrix last written to the run's raw file,
  \* and whether that file is on disk
  raw_filename, raw_written, raw_exists,
  \* callers of execute_capture: position and locals
  pc, loc,
  \* stop_now in progress, per calling thread
  snPc,
  \* GNU Radio streaming thread inside work()/process_recording
  sdrPc, sdrP,
  \* POST /stop requests still to come
  stopsLeft,
  \* configuration: capture plan, Scheduler.running, sdr_shutdown_after_recording,
  \* and the is_calibration values POST /start may carry
  plan, scheduler, shutdown, calibrations,
  \* history of the batches and of the frames delivered (observers only)
  batchesLeft, hist, blog, expected, winOpen, expRun, frameNo,
  \* one RMS CSV file (data/rms.py) and the arguments of the last write_csv call
  csv, rmsCall,
  \* POST /sdr-control: position of the handler, its 'sdr-active' argument and
  \* the requests still to come
  ctlPc, ctlDesired, ctlLeft,
  \* per caller: its last execute_capture call returned at the guard (observer)
  skipped,
  \* fft_record_sink.rec_time, and per CaptureRun whether start_record has
  \* set its capture_start_time
  rec_time, capture_start_time,
  \* process_sets' deep copy of the CaptureParams, per caller, and the
  \* counter, time and date_string of the CaptureRuns
  params1, runs,
  \* ROI store: processing_enabled, every set having the entries RoiEntries
  roi_enabled,
  \* config "timeslice_autogenerate", every hour being in "timeslice_hours"
  timeslice_autogenerate,
  \* the hour of datetime.now(); per time-slice PNG of the capture set (plot
  \* type, anchor hour) the hour of its mtime; and how often each was saved in
  \* each hour (observer)
  wall_hour, ts_mtime, ts_writes,
  \* one set_sdr_gain call: the device, the configured gains and the gains
  \* handed to the device; one _prepare_grid_data call: the day's metadata,
  \* the grid options and the rows of the grid; the ROI file before and after
  \* one save_roi_config(load_roi_config())
  gain, grid, roi_file,
  \* data/log.py _LOG_BUFFER: the keys of the entries it holds, and the keys
  \* of the entries that their batch removed without writing them (observer)
  log_buffer, log_lost

pipeVars   == <<recording, recording_status, record_start_time, error_text>>
ctrVars    == <<counter_value, counter_file>>
recVars    == <<receiver, rec_recording, rec_error_text, stop_requested>>
sinkVars   == <<is_recording, is_finalizing, start_time, elapsed, current_run, data, rec_time>>
batchVars  == <<status, params>>
fileVars   == <<raw_filename, raw_written, raw_exists>>
callerVars == <<pc, loc>>
snVars     == <<snPc>>
sdrVars    == <<sdrPc, sdrP>>
stopVars   == <<stopsLeft>>
cfgVars    == <<plan, scheduler, shutdown, calibrations, roi_enabled, timeslice_autogenerate>>
tsVars     == <<wall_hour, ts_mtime, ts_writes>>
fnVars     == <<gain, grid, roi_file>>
obsVars    == <<batchesLeft, hist, blog, expected, winOpen, expRun, frameNo>>
rmsVars    == <<csv, rmsCall>>
stampVars  == <<capture_start_time>>
procVars   == <<params1, runs>>
logVars    == <<log_buffer, log_lost>>
ctlVars    == <<ctlPc, ctlDesired, ctlLeft>>
skipVars   == <<skipped>>

vars == <<pipeVars, ctrVars, recVars, sinkVars, batchVars, fileVars, callerVars,
          snVars, sdrVars, stopVars, cfgVars, tsVars, fnVars, logVars, rmsVars, stampVars, procVars, ctlVars, skipVars, obsVars>>

\* ---- the capture plan ----
NumSets == Len(plan)
RunsBefore(s) == SumSeq(SubSeq(plan, 1, s - 1))
\* position of run i of set s in the batch's sweep order
Ord(s, i) == RunsBefore(s) + i

\* ---- fresh objects ----
NewStatus == [cancel_requested |-> FALSE, current_job_number |-> 0, jobs_total_number |-> 0]
NewParams == [counter |-> 0, is_calibration |-> FALSE, note |-> None,
              recording_start_datetime |-> 0, start_hour |-> 0,
              min_db_val |-> <<>>, max_db_val |-> <<>>]
NewRun == [counter |-> 0, time |-> 0, date_string |-> 0]
NewLoc == [calib |-> FALSE, si |-> 0, ri |-> 0, number |-> 0, plot |-> 0,
           cancelled |-> FALSE, stopSeen |-> FALSE, tmp |-> 0, incLeft |-> 0,
           nrec |-> 0, cfg |-> 0, results |-> 0, after |-> None, ret |-> None]
NewLog == [exit |-> "none", startRes |-> "none", errStored |-> FALSE, sdrFault |-> FALSE,
           cancelAt |-> "none", endCalls |-> 0, procCalls |-> 0,
           plotRows |-> 0, rmsRows |-> 0, grids |-> 0, incCalls |-> 0,
           stopped |-> FALSE, stopAt |-> 0, startedAfterStop |-> FALSE, stopFirst |-> FALSE,
           lastStart |-> 0, used |-> {}, roiRuns |-> {}, stopDuring |-> FALSE]

PipelineInit ==
  /\ recording = FALSE /\ recording_status = None
  /\ record_start_time = 0 /\ error_text = None
  /\ counter_value = -1 /\ counter_file = 0
  /\ receiver = "none" /\ rec_recording = FALSE /\ rec_error_text = FALSE
  /\ stop_requested = FALSE
  /\ is_recording = FALSE /\ is_finalizing = FALSE /\ start_time = None
  /\ elapsed = 0 /\ current_run = NoRun /\ data = <<>>
  /\ status = [c \in Callers |-> NewStatus]
  /\ params = [c \in Callers |-> NewParams]
  /\ raw_filename = [k \in RunKeys |-> FALSE]
  /\ raw_written = [k \in RunKeys |-> <<>>]
  /\ raw_exists = [k \in RunKeys |-> FALSE]
  /\ rec_time = DefaultRecTime
  /\ capture_start_time = [k \in RunKeys |-> FALSE]
  /\ params1 = [c \in Callers |-> NewParams]
  /\ runs = [k \in RunKeys |-> NewRun]
  /\ log_buffer = {} /\ log_lost = {}
  /\ wall_hour = 0
  /\ ts_mtime = [f \in TimeSliceFiles |-> NoFile]
  /\ ts_writes = [f \in TimeSliceFiles |-> [h \in 0..MaxHours |-> 0]]
  /\ pc = [c \in Callers |-> "idle"]
  /\ loc = [c \in Callers |-> NewLoc]
  /\ snPc = [t \in Stoppers |-> "none"]
  /\ sdrPc = "idle" /\ sdrP = 0
  /\ \E cf \in Configs : /\ plan = cf.plan /\ scheduler = cf.scheduler
                         /\ batchesLeft = cf.batches /\ stopsLeft = cf.stops
                         /\ shutdown \in cf.shutdown
                         /\ calibrations = cf.calibration
                         /\ ctlLeft = cf.ctl
                         /\ roi_enabled \in cf.roi
                         /\ timeslice_autogenerate \in cf.timeslice
  /\ hist = <<>> /\ blog = [c \in Callers |-> NewLog]
  /\ expected = <<>> /\ winOpen = FALSE /\ expRun = NoRun /\ frameNo = 0
  /\ ctlPc = "idle" /\ ctlDesired = FALSE
  /\ skipped = [c \in Callers |-> FALSE]
  /\ csv = <<>> /\ rmsCall = [n |-> 0, ids |-> <<>>, vals |-> <<>>, raised |-> FALSE]

\* no call of set_sdr_gain, _prepare_grid_data or save_roi_config under study
NoRoiFile == [pe |-> "none", extra |-> FALSE, rois |-> <<>>]
FnIdle ==
  [gain |-> [device |-> "none", rf_gain |-> 0, if_gain |-> 0, done |-> FALSE,
             set_rf |-> 0, set_if |-> 0, warned |-> FALSE],
   grid |-> [meta |-> <<>>, sort_latest_first |-> TRUE, max_rows |-> 0, window |-> 12,
             done |-> FALSE, rows |-> <<>>],
   roi_file |-> [before |-> NoRoiFile, done |-> FALSE, raised |-> FALSE, after |-> NoRoiFile]]

Init ==
  /\ PipelineInit
  /\ gain = FnIdle.gain /\ grid = FnIdle.grid /\ roi_file = FnIdle.roi_file

\* ---- small helpers ----
\* the locals that outlive the sweep: nrec = len(sets_recorded), cancelled
AfterSweep(l, canc, n, aft) ==
  [NewLoc EXCEPT !.calib = l.calib, !.cancelled = canc, !.nrec = n, !.after = aft]
\* no local of execute is read after its last statement
AtEnd(l) == [NewLoc EXCEPT !.calib = l.calib]
Goto(c, l) == pc' = [pc EXCEPT ![c] = l]
\* the batch that caller c is executing owns status[c], params[c], blog[c]
B(c) == c
Log(b, f, v) == blog' = [blog EXCEPT ![b][f] = v]

\* =========================================================================
\* Triggers
\* =========================================================================

\* scheduler.py _run_capture_wrapper -> Pipeline.execute_capture_default:
\* CaptureParams(rec_time_sec=None, note=None, is_calibration=False)
CronFire ==
  /\ pc["cron"] = "idle"
  /\ scheduler
  /\ batchesLeft > 0
  /\ pc' = [pc EXCEPT !["cron"] = "guard"]
  /\ loc' = [loc EXCEPT !["cron"] = NewLoc]
  /\ skipped' = [skipped EXCEPT !["cron"] = FALSE]
  /\ UNCHANGED <<pipeVars, ctrVars, recVars, sinkVars, batchVars, fileVars,
                 snVars, sdrVars, stopVars, cfgVars, tsVars, fnVars, logVars, rmsVars, stampVars, procVars, ctlVars, obsVars>>

\* web_routes.py start_record: the handler tests p.is_recording(), then spawns
\* a thread that runs execute_capture(params)
StartRecordRoute ==
  /\ pc["http"] = "idle"
  /\ batchesLeft > 0
  /\ ~recording
  /\ \E calibration \in calibrations :
       loc' = [loc EXCEPT !["http"] = [NewLoc EXCEPT !.calib = calibration]]
  /\ pc' = [pc EXCEPT !["http"] = "guard"]
  /\ skipped' = [skipped EXCEPT !["http"] = FALSE]
  /\ UNCHANGED <<pipeVars, ctrVars, recVars, sinkVars, batchVars, fileVars,
                 snVars, sdrVars, stopVars, cfgVars, tsVars, fnVars, logVars, rmsVars, stampVars, procVars, ctlVars, obsVars>>

\* =========================================================================
\* Pipeline.execute_capture
\* =========================================================================

\* the skipped call kept waiting at the guard until the batch in flight ends
ExecuteCaptureSkipQueues(c) ==
  /\ pc[c] = "guard"
  /\ recording
  /\ skipped' = [skipped EXCEPT ![c] = TRUE]
  /\ UNCHANGED <<callerVars, pipeVars, ctrVars, recVars, sinkVars, batchVars, fileVars,
                 snVars, sdrVars, stopVars, cfgVars, tsVars, fnVars, logVars, rmsVars, stampVars, procVars, ctlVars, obsVars>>

\* the skipped call taking a counter value before it returns
ExecuteCaptureSkipCounts(c) ==
  /\ pc[c] = "guard"
  /\ recording
  /\ Goto(c, "idle")
  /\ skipped' = [skipped EXCEPT ![c] = TRUE]
  /\ counter_value' = counter_value + 1
  /\ UNCHANGED <<loc, counter_file, pipeVars, recVars, sinkVars, batchVars, fileVars,
                 snVars, sdrVars, stopVars, cfgVars, tsVars, fnVars, logVars, rmsVars, stampVars, procVars, ctlVars, obsVars>>

\* pipeline.py:86-88  if self.recording: return
ExecuteCaptureSkip(c) ==
  /\ pc[c] = "guard"
  /\ recording
  /\ Goto(c, "idle")
  /\ skipped' = [skipped EXCEPT ![c] = TRUE]
  /\ UNCHANGED <<loc, pipeVars, ctrVars, recVars, sinkVars, batchVars, fileVars,
                 snVars, sdrVars, stopVars, cfgVars, tsVars, fnVars, logVars, rmsVars, stampVars, procVars, ctlVars, obsVars>>

\* the two batches that passed the guard last, in that order; alone: every
\* earlier call had left execute_capture when this one passed the guard
LastTwo(h) == IF Len(h) > 2 THEN Tail(h) ELSE h

\* the entry of caller c's running batch is the last one c added
Stamp(h, c, n) ==
  LET i == CHOOSE j \in 1..Len(h) : h[j].who = c /\ \A k \in (j + 1)..Len(h) : h[k].who # c
  IN [h EXCEPT ![i].counter = n]

\* the note of the CaptureParams that the caller constructed: scheduler.py's
\* job passes None (pipeline.py:82), POST /start the text of the request
\* (web_routes.py:209-216)
RequestNote(c) == IF c = "cron" THEN None ELSE "note"

\* pipeline.py:86  the guard read self.recording = False; the call becomes the
\* next batch in start order
ExecuteCaptureGuard(c) ==
  /\ pc[c] = "guard"
  /\ ~recording
  /\ batchesLeft > 0
  /\ batchesLeft' = batchesLeft - 1
  /\ hist' = LastTwo(Append(hist, [who |-> c, counter |-> 0, calib |-> loc[c].calib,
                                   alone |-> \A o \in Callers : pc[o] \in {"idle", "guard"}]))
  /\ params' = [params EXCEPT ![c] = [NewParams EXCEPT !.is_calibration = loc[c].calib,
                                                      !.note = RequestNote(c)]]
  /\ blog' = [blog EXCEPT ![c].exit = "running"]
  /\ Goto(c, "setflag")
  /\ UNCHANGED <<loc, status, pipeVars, ctrVars, recVars, sinkVars, fileVars,
                 snVars, sdrVars, stopVars, cfgVars, tsVars, fnVars, logVars, rmsVars, stampVars, procVars, ctlVars, skipVars, expected, winOpen, expRun, frameNo>>

\* pipeline.py:90-93  self.recording = True; self.record_start_time = time.time();
\* self.recording_status = RecordingStatus(); self.error_text = None
ExecuteCaptureSetFlag(c) ==
  /\ pc[c] = "setflag"
  /\ recording' = TRUE
  /\ record_start_time' = StartStamp
  /\ recording_status' = B(c)
  /\ error_text' = None
  /\ status' = [status EXCEPT ![B(c)] = NewStatus]
  /\ loc' = [loc EXCEPT ![c].after = "first"]
  /\ Goto(c, "inc_read")
  /\ UNCHANGED <<params, ctrVars, recVars, sinkVars, fileVars,
                 snVars, sdrVars, stopVars, cfgVars, tsVars, fnVars, logVars, rmsVars, stampVars, procVars, ctlVars, skipVars, obsVars>>

\* ---- utils/counter.py inc_counter, called at pipeline.py:96 and :207 ----

\* counter.py:52-53  get_counter(); load of counter_value for "+= 1"
IncCounterRead(c) ==
  /\ pc[c] = "inc_read"
  /\ LET cur == IF counter_value # -1 THEN counter_value ELSE counter_file IN
       /\ counter_value' = cur
       /\ loc' = [loc EXCEPT ![c].tmp = cur]
  /\ Goto(c, "inc_store")
  /\ UNCHANGED <<counter_file, pipeVars, recVars, sinkVars, batchVars, fileVars,
                 snVars, sdrVars, stopVars, cfgVars, tsVars, fnVars, logVars, rmsVars, stampVars, procVars, ctlVars, skipVars, obsVars>>

\* pipeline.py:98 datetime.now(): a clock that has advanced with every batch
\* started
Now == MaxBatches - batchesLeft

\* counter.py:53  store of counter_value + 1
IncCounterStoreValue(c) == loc[c].tmp + 1

\* counter.py:53-58  the store, the file overwritten, counter_value returned;
\* pipeline.py:97 capture_params.counter = counter, or pipeline.py:206 next round
IncCounterStore(c) ==
  /\ pc[c] = "inc_store"
  /\ counter_value' = IncCounterStoreValue(c)
  /\ counter_file' = IncCounterStoreValue(c)
  /\ Log(B(c), "incCalls", blog[B(c)].incCalls + 1)
  /\ IF loc[c].after = "first"
       THEN /\ params' = [params EXCEPT ![B(c)].counter = IncCounterStoreValue(c),
                                         ![B(c)].recording_start_datetime = Now,
                                         ![B(c)].start_hour = wall_hour]
            /\ hist' = Stamp(hist, c, IncCounterStoreValue(c))
            /\ loc' = [loc EXCEPT ![c].tmp = 0]
            /\ Goto(c, "ors")
       ELSE /\ loc' = [loc EXCEPT ![c] = IF loc[c].incLeft > 1
                                            THEN [loc[c] EXCEPT !.incLeft = @ - 1, !.tmp = 0]
                                            ELSE AtEnd(loc[c])]
            /\ Goto(c, IF loc[c].incLeft > 1 THEN "inc_read" ELSE "fin")
            /\ UNCHANGED <<params, hist>>
  /\ UNCHANGED <<status, pipeVars, recVars, sinkVars, fileVars,
                 snVars, sdrVars, stopVars, cfgVars, tsVars, fnVars, logVars, rmsVars, stampVars, procVars, ctlVars, skipVars,
                 batchesLeft, expected, winOpen, expRun, frameNo>>

\* counter.py:55  open(counter_fname, "w") raises (read-only or full disk)
\* after the store.  At pipeline.py:96 the call is outside the try block: the
\* exception leaves execute_capture at once.  At pipeline.py:207 it is inside
\* execute's try.
IncCounterFails(c) ==
  /\ pc[c] = "inc_store"
  /\ counter_value' = IncCounterStoreValue(c)
  /\ loc' = [loc EXCEPT ![c].tmp = 0]
  /\ IF loc[c].after = "first"
       THEN /\ Goto(c, "done")
            /\ Log(B(c), "exit", "raised")
       ELSE /\ Goto(c, "exc")
            /\ UNCHANGED blog
  /\ UNCHANGED <<counter_file, pipeVars, recVars, sinkVars, batchVars, fileVars,
                 snVars, sdrVars, stopVars, cfgVars, tsVars, fnVars, logVars, rmsVars, stampVars, procVars, ctlVars, skipVars,
                 batchesLeft, hist, expected, winOpen, expRun, frameNo>>

\* =========================================================================
\* Pipeline.execute: recorder start
\* =========================================================================

\* a new fft_receiver owns a new fft_record_sink (fft_record_sink.__init__)
FreshSink ==
  /\ is_recording' = FALSE /\ is_finalizing' = FALSE /\ start_time' = None
  /\ elapsed' = 0 /\ current_run' = NoRun /\ data' = <<>>
  /\ rec_time' = DefaultRecTime

\* recorder.py:59-64 on_record_start: self.recording = True, then
\* create_receiver (recorder.py:76-101) when there is no receiver.
\* The except branch of create_receiver stores error_text and re-raises.
OnRecordStart(c) ==
  /\ pc[c] = "ors"
  /\ IF receiver # "none"
       THEN /\ rec_recording' = TRUE
            /\ Goto(c, "ors_start")
            /\ UNCHANGED <<receiver, rec_error_text, stop_requested, sinkVars, blog>>
       ELSE \E created \in BOOLEAN :
              IF created
                THEN /\ rec_recording' = TRUE
                     /\ rec_error_text' = FALSE
                     /\ stop_requested' = FALSE
                     /\ receiver' = "created"
                     /\ FreshSink
                     /\ Goto(c, "ors_start")
                     /\ UNCHANGED blog
                ELSE /\ rec_error_text' = TRUE
                     /\ stop_requested' = FALSE
                     /\ rec_recording' = FALSE
                     /\ receiver' = "none"
                     /\ blog' = [blog EXCEPT ![B(c)].sdrFault = TRUE,
                                             ![B(c)].startRes = "raised",
                                             ![B(c)].errStored = TRUE]
                     /\ Goto(c, "exc")
                     /\ UNCHANGED sinkVars
  /\ UNCHANGED <<loc, pipeVars, ctrVars, batchVars, fileVars, snVars, sdrVars,
                 stopVars, cfgVars, tsVars, fnVars, logVars, rmsVars, stampVars, procVars, ctlVars, skipVars, batchesLeft, hist, expected, winOpen, expRun, frameNo>>

\* recorder.py:104-107 start_receiver and 132-143 _start_receiver_internal:
\* receiver.start() raising is caught and answered with False; starting a
\* top block that is already running raises as well.  pipeline.py:143-145.
StartReceiver(c) ==
  /\ pc[c] = "ors_start"
  /\ \E armed \in BOOLEAN :
       IF receiver = "created" /\ armed
         THEN /\ receiver' = "streaming"
              /\ Log(B(c), "startRes", "true")
              /\ Goto(c, "chk1")
         ELSE /\ UNCHANGED receiver
              /\ blog' = [blog EXCEPT ![B(c)].sdrFault = TRUE,
                                      ![B(c)].startRes = "false",
                                      ![B(c)].errStored = rec_error_text]
              /\ Goto(c, "fin")
  /\ UNCHANGED <<loc, rec_recording, rec_error_text, stop_requested, pipeVars, ctrVars,
                 sinkVars, batchVars, fileVars, snVars, sdrVars, stopVars, cfgVars, tsVars, fnVars, logVars, rmsVars, stampVars, procVars, ctlVars, skipVars,
                 batchesLeft, hist, expected, winOpen, expRun, frameNo>>

\* pipeline.py:147-150  if status.cancel_requested: on_record_end(); return
CancelledAfterStart(c) == status[B(c)].cancel_requested

CheckCancelAfterStart(c) ==
  /\ pc[c] = "chk1"
  /\ Log(B(c), "cancelAt", IF status[B(c)].cancel_requested THEN "start" ELSE "none")
  /\ IF CancelledAfterStart(c)
       THEN /\ loc' = [loc EXCEPT ![c].after = "ret"]
            /\ Goto(c, "ore")
       ELSE /\ Goto(c, "er")
            /\ UNCHANGED loc
  /\ UNCHANGED <<pipeVars, ctrVars, recVars, sinkVars, batchVars, fileVars, snVars,
                 sdrVars, stopVars, cfgVars, tsVars, fnVars, logVars, rmsVars, stampVars, procVars, ctlVars, skipVars, batchesLeft, hist, expected, winOpen, expRun, frameNo>>

\* =========================================================================
\* Recorder.execute_recordings / start_capture_runs
\* =========================================================================

\* recorder.py:157-160, 174-176
ExecuteRecordings(c) ==
  /\ pc[c] = "er"
  /\ IF receiver # "none"
       THEN /\ loc' = [loc EXCEPT ![c].si = 1, ![c].nrec = 0, ![c].cancelled = FALSE]
            /\ Goto(c, "er_set")
       ELSE /\ loc' = [loc EXCEPT ![c] = AfterSweep(loc[c], TRUE, 0, "chk2")]
            /\ Goto(c, "ore")
  /\ UNCHANGED <<pipeVars, ctrVars, recVars, sinkVars, batchVars, fileVars, snVars,
                 sdrVars, stopVars, cfgVars, tsVars, fnVars, logVars, rmsVars, stampVars, procVars, ctlVars, skipVars, obsVars>>

\* recorder.py:183 strftime('%Y-%m-%d') of a datetime
DateString(t) == t \div TicksPerDay

\* recorder.py:212-224 the CaptureRun of one spec: counter, time and
\* date_string are taken from the CaptureParams
CreateCaptureRun(p) ==
  [counter |-> p.counter, time |-> p.recording_start_datetime,
   date_string |-> DateString(p.recording_start_datetime)]

\* the runs of set s of batch b
InSet(k, b, s) == k[1] = b /\ k[2] > RunsBefore(s) /\ k[2] <= RunsBefore(s) + plan[s]

\* a CaptureRun object that the batch has used (observer)
Used(kind, n, run) == [kind |-> kind, cfg |-> n, run |-> run]

\* recorder.py:161-166 next capture set: _create_capture_runs;
\* 233-234 status.jobs_total_number = len(runs)
NextCaptureSet(c) ==
  /\ pc[c] = "er_set"
  /\ IF loc[c].si > NumSets
       THEN /\ loc' = [loc EXCEPT ![c] = AfterSweep(loc[c], FALSE, loc[c].nrec, "chk2")]
            /\ Goto(c, "ore")
            /\ UNCHANGED <<status, runs, blog>>
       ELSE /\ status' = [status EXCEPT ![B(c)].jobs_total_number = plan[loc[c].si]]
            /\ runs' = [k \in RunKeys |->
                          IF InSet(k, B(c), loc[c].si) THEN CreateCaptureRun(params[B(c)])
                                                     ELSE runs[k]]
            /\ Log(B(c), "used", blog[B(c)].used
                                   \cup {Used("recorded", 0, CreateCaptureRun(params[B(c)]))})
            /\ loc' = [loc EXCEPT ![c].number = 0, ![c].ri = 1]
            /\ Goto(c, "scr_top")
  /\ UNCHANGED <<params, params1, pipeVars, ctrVars, recVars, sinkVars, fileVars, snVars,
                 sdrVars, stopVars, cfgVars, tsVars, fnVars, logVars, rmsVars, stampVars, ctlVars, skipVars,
                 batchesLeft, hist, expected, winOpen, expRun, frameNo>>

\* a call of sink.stop_now by thread t, returning to label r; with no
\* receiver the attribute access raises and the callers catch it
CallStopNow(t) == snPc' = [snPc EXCEPT ![t] = IF receiver = "none" THEN "none" ELSE "sn1"]

\* recorder.py:235-237 top of the runs loop, 260-267 _check_if_stopped
RunsLoopTop(c) ==
  /\ pc[c] = "scr_top"
  /\ snPc[c] = "none"
  /\ IF loc[c].ri > plan[loc[c].si]
       THEN /\ Goto(c, "scr_end1") /\ UNCHANGED snPc
       ELSE IF stop_requested
              THEN /\ CallStopNow(c) /\ Goto(c, "scr_end1")
              ELSE /\ Goto(c, "scr_tune") /\ UNCHANGED snPc
  /\ UNCHANGED <<loc, pipeVars, ctrVars, recVars, sinkVars, batchVars, fileVars,
                 sdrVars, stopVars, cfgVars, tsVars, fnVars, logVars, rmsVars, stampVars, procVars, ctlVars, skipVars, obsVars>>

\* recorder.py:239-242 retune and settle; without a receiver the attribute
\* access raises inside execute's try
TuneReceiver(c) ==
  /\ pc[c] = "scr_tune"
  /\ snPc[c] = "none"
  /\ Goto(c, IF receiver = "none" THEN "exc" ELSE "sr1")
  /\ UNCHANGED <<loc, pipeVars, ctrVars, recVars, sinkVars, batchVars, fileVars, snVars,
                 sdrVars, stopVars, cfgVars, tsVars, fnVars, logVars, rmsVars, stampVars, procVars, ctlVars, skipVars, obsVars>>

\* ---- fft_record_sink.start_record (fft_record_sink.py:81-96), called at
\* recorder.py:244; its statements interleave with the streaming thread ----
RunKey(c) == <<B(c), Ord(loc[c].si, loc[c].ri)>>

\* start_record without the test of is_recording
StartRecordUnguarded(c) ==
  /\ pc[c] = "sr1"
  /\ IF receiver = "none"
       THEN /\ Goto(c, "exc")
            /\ UNCHANGED <<is_recording, is_finalizing, rec_time, capture_start_time,
                           blog, frameNo>>
       ELSE /\ blog' = [blog EXCEPT ![B(c)].lastStart = Ord(loc[c].si, loc[c].ri)]
            /\ rec_time' = RecTime
            /\ capture_start_time' = [capture_start_time EXCEPT ![RunKey(c)] = TRUE]
            /\ is_recording' = TRUE
            /\ is_finalizing' = FALSE
            /\ frameNo' = 0
            /\ Goto(c, "sr2")
  /\ UNCHANGED <<start_time, elapsed, current_run, data, loc, pipeVars,
                 ctrVars, recVars, batchVars, fileVars, snVars, sdrVars, stopVars, cfgVars, tsVars, fnVars, logVars, rmsVars, procVars, ctlVars, skipVars,
                 batchesLeft, hist, expected, winOpen, expRun>>

\* fft_record_sink.py:82-93  guard, rec_time, capture_start_time,
\* is_recording = True, is_finalizing = False
StartRecord(c) ==
  /\ pc[c] = "sr1"
  /\ IF receiver = "none"
       THEN /\ Goto(c, "exc")
            /\ UNCHANGED <<is_recording, is_finalizing, rec_time, capture_start_time,
                           blog, frameNo>>
       ELSE /\ blog' = [blog EXCEPT
                  ![B(c)].startedAfterStop =
                     @ \/ (blog[B(c)].stopped /\ Ord(loc[c].si, loc[c].ri) > blog[B(c)].stopAt),
                  ![B(c)].lastStart = Ord(loc[c].si, loc[c].ri)]
            /\ IF is_recording
                 THEN /\ Goto(c, "scr_wait")
                      /\ UNCHANGED <<is_recording, is_finalizing, rec_time,
                                     capture_start_time, frameNo>>
                 ELSE /\ rec_time' = RecTime
                      /\ capture_start_time' = [capture_start_time EXCEPT ![RunKey(c)] = TRUE]
                      /\ is_recording' = TRUE
                      /\ is_finalizing' = FALSE
                      /\ frameNo' = 0
                      /\ Goto(c, "sr2")
  /\ UNCHANGED <<start_time, elapsed, current_run, data, loc, pipeVars,
                 ctrVars, recVars, batchVars, fileVars, snVars, sdrVars, stopVars, cfgVars, tsVars, fnVars, logVars, rmsVars, procVars, ctlVars, skipVars,
                 batchesLeft, hist, expected, winOpen, expRun>>

\* fft_record_sink.py:94-96  self.start_time = current_time();
\* self.current_run = run; self.clear_data(); start_record returns: from here
\* on the frames delivered belong to this run
StartRecordSetRun(c) ==
  /\ pc[c] = "sr2"
  /\ start_time' = "set"
  /\ elapsed' = 0
  /\ current_run' = RunKey(c)
  /\ data' = <<>>
  /\ winOpen' = TRUE /\ expected' = <<>> /\ expRun' = RunKey(c)
  /\ Goto(c, "scr_wait")
  /\ UNCHANGED <<is_recording, is_finalizing, loc,
                 pipeVars, ctrVars, recVars, batchVars, fileVars, snVars, sdrVars, stopVars,
                 cfgVars, tsVars, fnVars, logVars, rmsVars, stampVars, procVars, rec_time, ctlVars, skipVars, batchesLeft, hist, blog, frameNo>>

\* the wait loop left at its first test, whatever the sink says
WaitForSinkOnce(c) ==
  /\ pc[c] = "scr_wait"
  /\ IF receiver = "none"
       THEN /\ Goto(c, "exc") /\ UNCHANGED snPc
       ELSE /\ Goto(c, "scr_count") /\ UNCHANGED snPc
  /\ UNCHANGED <<loc, pipeVars, ctrVars, recVars, sinkVars, batchVars, fileVars,
                 sdrVars, stopVars, cfgVars, tsVars, fnVars, logVars, rmsVars, stampVars, procVars, ctlVars, skipVars, obsVars>>

\* recorder.py:246-249  while sink.is_recording: if _check_if_stopped(): break;
\* sleep(0.1).  The thread stays in the loop while the sink is recording and
\* no stop is requested.
WaitForSink(c) ==
  /\ pc[c] = "scr_wait"
  /\ IF receiver = "none"
       THEN /\ Goto(c, "exc") /\ UNCHANGED snPc
       ELSE \/ /\ ~is_recording
               /\ Goto(c, "scr_count") /\ UNCHANGED snPc
            \/ /\ is_recording /\ stop_requested
               /\ CallStopNow(c) /\ Goto(c, "scr_count")
  /\ UNCHANGED <<loc, pipeVars, ctrVars, recVars, sinkVars, batchVars, fileVars,
                 sdrVars, stopVars, cfgVars, tsVars, fnVars, logVars, rmsVars, stampVars, procVars, ctlVars, skipVars, obsVars>>

\* recorder.py:251-252  number = number + 1; status.current_job_number = number
CountRun(c) ==
  /\ pc[c] = "scr_count"
  /\ snPc[c] = "none"
  /\ loc' = [loc EXCEPT ![c].number = @ + 1, ![c].ri = @ + 1]
  /\ status' = [status EXCEPT ![B(c)].current_job_number = loc[c].number + 1]
  /\ Goto(c, "scr_top")
  /\ IF expRun = RunKey(c)
       THEN expected' = <<>> /\ expRun' = NoRun /\ winOpen' = FALSE
       ELSE UNCHANGED <<expected, expRun, winOpen>>
  /\ UNCHANGED <<params, pipeVars, ctrVars, recVars, sinkVars, fileVars, snVars,
                 sdrVars, stopVars, cfgVars, tsVars, fnVars, logVars, rmsVars, stampVars, procVars, ctlVars, skipVars, batchesLeft, hist, blog, frameNo>>

\* recorder.py:254  cancelled = self.stop_requested
ReadStopRequested(c) ==
  /\ pc[c] = "scr_end1"
  /\ snPc[c] = "none"
  /\ loc' = [loc EXCEPT ![c].stopSeen = stop_requested]
  /\ Goto(c, "scr_end2")
  /\ UNCHANGED <<pipeVars, ctrVars, recVars, sinkVars, batchVars, fileVars, snVars,
                 sdrVars, stopVars, cfgVars, tsVars, fnVars, logVars, rmsVars, stampVars, procVars, ctlVars, skipVars, obsVars>>

\* recorder.py:256-257  self.stop_requested = False; return not cancelled;
\* recorder.py:168-172  sets_recorded.append; break when not completed
ResetStopRequested(c) ==
  /\ pc[c] = "scr_end2"
  /\ stop_requested' = FALSE
  /\ IF loc[c].stopSeen
       THEN /\ loc' = [loc EXCEPT ![c] = AfterSweep(loc[c], TRUE, loc[c].nrec + 1, "chk2")]
            /\ Goto(c, "ore")
       ELSE /\ loc' = [loc EXCEPT ![c].nrec = @ + 1, ![c].si = @ + 1, ![c].stopSeen = FALSE]
            /\ Goto(c, "er_set")
  /\ UNCHANGED <<receiver, rec_recording, rec_error_text, pipeVars, ctrVars, sinkVars,
                 batchVars, fileVars, snVars, sdrVars, stopVars, cfgVars, tsVars, fnVars, logVars, rmsVars, stampVars, procVars, ctlVars, skipVars, obsVars>>

\* =========================================================================
\* fft_record_sink.stop_now (fft_record_sink.py:115-135), run by thread t
\* =========================================================================

\* fft_record_sink.py:143-153 _write_raw_data: None without data or without a
\* current run, else write_raw(current_run, copy of data) returns the path
WriteRawData(val) ==
  IF data = <<>> \/ current_run = NoRun
    THEN /\ val = FALSE
         /\ UNCHANGED <<raw_written, raw_exists>>
    ELSE /\ val = TRUE
         /\ raw_written' = [raw_written EXCEPT ![current_run] = data]
         /\ raw_exists' = [raw_exists EXCEPT ![current_run] = TRUE]

\* fft_record_sink.py:118-124  the tests of is_finalizing and is_recording
StopNowCheck(t) ==
  /\ snPc[t] = "sn1"
  /\ snPc' = [snPc EXCEPT ![t] = IF is_finalizing \/ ~is_recording THEN "none" ELSE "sn2"]
  /\ UNCHANGED <<pipeVars, ctrVars, recVars, sinkVars, batchVars, fileVars,
                 callerVars, sdrVars, stopVars, cfgVars, tsVars, fnVars, logVars, rmsVars, stampVars, procVars, ctlVars, skipVars, obsVars>>

\* fft_record_sink.py:126-133  is_finalizing = True; with a current run
\* raw_filename = _write_raw_data() if self.data else None; clear_data();
\* current_run = None; is_recording = False
StopNowFinalize(t) ==
  /\ snPc[t] = "sn2"
  /\ is_finalizing' = TRUE
  /\ IF current_run = NoRun
       THEN UNCHANGED fileVars
       ELSE \E val \in BOOLEAN :
              /\ WriteRawData(val)
              /\ raw_filename' = [raw_filename EXCEPT ![current_run] = val]
  /\ data' = <<>>
  /\ current_run' = NoRun
  /\ is_recording' = FALSE
  /\ winOpen' = FALSE
  /\ snPc' = [snPc EXCEPT ![t] = "none"]
  /\ UNCHANGED <<start_time, elapsed, pipeVars, ctrVars, recVars, batchVars,
                 callerVars, sdrVars, stopVars, cfgVars, tsVars, fnVars, logVars, rmsVars, stampVars, procVars, rec_time, ctlVars, skipVars,
                 batchesLeft, hist, blog, expected, expRun, frameNo>>

\* =========================================================================
\* The streaming thread: fft_record_sink.work -> process_recording(p)
\* (fft_record_sink.py:63-79, 99-111) and the wall clock
\* =========================================================================

\* current_time() - self.start_time < self.rec_time
InBudget == start_time # None /\ elapsed < rec_time

\* The frame about to be handed to process_recording: frames of one run are
\* numbered in arrival order.
\* fft_record_sink.py:100-103 the tests of process_recording; a frame that
\* arrives before start_time was ever set raises in the comparison.
SdrFrame ==
  /\ sdrPc = "idle"
  /\ receiver = "streaming"
  /\ LET p == frameNo + 1
         inWindow == winOpen /\ InBudget
         noop == is_finalizing \/ ~is_recording \/ start_time = None
     IN /\ (noop => inWindow)
        /\ (InBudget \/ start_time = None) => frameNo < MaxFrames
        /\ frameNo' = IF InBudget \/ start_time = None THEN p ELSE frameNo
        /\ expected' = IF inWindow THEN Append(expected, p) ELSE expected
        /\ sdrP' = IF ~noop /\ InBudget THEN p ELSE 0
        /\ sdrPc' = IF noop THEN "idle" ELSE IF InBudget THEN "app" ELSE "f1"
  /\ UNCHANGED <<pipeVars, ctrVars, recVars, sinkVars, batchVars, fileVars,
                 callerVars, snVars, stopVars, cfgVars, tsVars, fnVars, logVars, rmsVars, stampVars, procVars, ctlVars, skipVars, batchesLeft, hist, blog, winOpen, expRun>>

\* fft_record_sink.py:104  self.data.append(p)
AppendFrame(d, p) == Append(d, p)

SdrAppend ==
  /\ sdrPc = "app"
  /\ data' = AppendFrame(data, sdrP)
  /\ sdrPc' = "idle"
  /\ sdrP' = 0
  /\ UNCHANGED <<is_recording, is_finalizing, start_time, elapsed,
                 current_run, pipeVars, ctrVars, recVars, batchVars, fileVars,
                 callerVars, snVars, stopVars, cfgVars, tsVars, fnVars, logVars, rmsVars, stampVars, procVars, rec_time, ctlVars, skipVars, obsVars>>

\* fft_record_sink.py:107-111  is_finalizing = True;
\* current_run.raw_filename = _write_raw_data(); clear_data();
\* current_run = None; is_recording = False.  With current_run None the store
\* raises out of work() and the rest is not executed.
SdrFinalize ==
  /\ sdrPc = "f1"
  /\ is_finalizing' = TRUE
  /\ winOpen' = FALSE
  /\ sdrPc' = "idle"
  /\ IF current_run = NoRun
       THEN UNCHANGED <<fileVars, data, current_run, is_recording>>
       ELSE /\ \E val \in BOOLEAN :
                 /\ WriteRawData(val)
                 /\ raw_filename' = [raw_filename EXCEPT ![current_run] = val]
            /\ data' = <<>>
            /\ current_run' = NoRun
            /\ is_recording' = FALSE
  /\ UNCHANGED <<sdrP, start_time, elapsed, pipeVars, ctrVars, recVars, batchVars,
                 callerVars, snVars, stopVars, cfgVars, tsVars, fnVars, logVars, rmsVars, stampVars, procVars, rec_time, ctlVars, skipVars,
                 batchesLeft, hist, blog, expected, expRun, frameNo>>

\* fft_record_sink.py:36-37 current_time(): the wall clock advances; elapsed is
\* current_time() - start_time, kept up to rec_time
Tick ==
  /\ start_time # None
  /\ elapsed < rec_time
  /\ elapsed' = elapsed + 1
  /\ UNCHANGED <<is_recording, is_finalizing, start_time, current_run, data, pipeVars,
                 ctrVars, recVars, batchVars, fileVars, callerVars, snVars, sdrVars,
                 stopVars, cfgVars, tsVars, fnVars, logVars, rmsVars, stampVars, procVars, rec_time, ctlVars, skipVars, obsVars>>

\* =========================================================================
\* POST /stop: web_routes.py stop_record -> Pipeline.request_stop_recording
\* -> Recorder.request_stop
\* =========================================================================

SweepLabels == {"er_set", "scr_top", "scr_tune", "sr1", "sr2",
                "scr_wait", "scr_count", "scr_end1", "scr_end2"}
InSweep(c) == pc[c] \in SweepLabels

\* the run of the sweep that caller c is at: the run started or about to be
\* started, between two sets the last run of the set just swept
SweepPos(c) ==
  IF pc[c] = "er_set" THEN RunsBefore(loc[c].si)
  ELSE IF loc[c].ri > plan[loc[c].si] THEN Ord(loc[c].si, plan[loc[c].si])
  ELSE Ord(loc[c].si, loc[c].ri)

\* the first run of a batch whose first set has 5 specs is recording and has
\* buffered at least one frame
FirstRunOfFiveRecording(b) ==
  /\ plan[1] = 5
  /\ is_recording /\ current_run = <<b, 1>> /\ data # <<>>
  /\ pc[b] = "scr_wait" /\ snPc[b] = "none"

\* web_routes.py:228-230 the test of p.is_recording(); pipeline.py:112-118
\* request_stop_recording: recording_status.cancel_requested = True;
\* recorder.py:120-127 request_stop: self.stop_requested = True, then
\* self.receiver.fft_record_sink.stop_now() inside try/except
StopRoute ==
  /\ snPc["stop"] = "none"
  /\ stopsLeft > 0
  /\ recording
  /\ stopsLeft' = stopsLeft - 1
  /\ status' = IF recording_status = None THEN status
               ELSE [status EXCEPT ![recording_status].cancel_requested = TRUE]
  /\ stop_requested' = TRUE
  /\ CallStopNow("stop")
  /\ blog' = [c \in Callers |->
               [blog[c] EXCEPT
                  !.stopFirst = @ \/ (recording_status = c /\ FirstRunOfFiveRecording(c)),
                  !.stopped = @ \/ InSweep(c),
                  !.stopDuring = @ \/ pc[c] \notin {"idle", "guard", "done"},
                  !.stopAt = IF InSweep(c) /\ ~blog[c].stopped THEN SweepPos(c) ELSE @]]
  /\ UNCHANGED <<params, receiver, rec_recording, rec_error_text, pipeVars,
                 ctrVars, sinkVars, fileVars, callerVars, sdrVars, cfgVars, tsVars, fnVars, logVars, rmsVars, stampVars, procVars, ctlVars, skipVars,
                 batchesLeft, hist, expected, winOpen, expRun, frameNo>>

\* =========================================================================
\* POST /sdr-control: web_routes.py sdr_control
\* =========================================================================

\* web_routes.py:246-252  the test of Recorder.recording, then the body is read
SdrControlCheck ==
  /\ ctlPc = "idle"
  /\ ctlLeft > 0
  /\ ctlLeft' = ctlLeft - 1
  /\ IF rec_recording
       THEN UNCHANGED <<ctlPc, ctlDesired>>
       ELSE /\ ctlPc' = "act"
            /\ ctlDesired' \in BOOLEAN
  /\ UNCHANGED <<pipeVars, ctrVars, recVars, sinkVars, batchVars, fileVars, callerVars,
                 snVars, sdrVars, stopVars, cfgVars, tsVars, fnVars, logVars, rmsVars, stampVars, procVars, skipVars, obsVars>>

\* web_routes.py:256-259  create_receiver() (recorder.py:76-101: a new
\* fft_receiver with a new sink replaces the one held, or the constructor
\* raises) or disconnect_receiver() (recorder.py:113-117)
SdrControlAct ==
  /\ ctlPc = "act"
  /\ ctlPc' = "idle"
  /\ ctlDesired' = FALSE
  /\ IF ctlDesired
       THEN /\ stop_requested' = FALSE
            /\ \E created \in BOOLEAN :
                 IF created
                   THEN /\ receiver' = "created"
                        /\ rec_error_text' = FALSE
                        /\ FreshSink
                        /\ sdrPc' = "idle" /\ sdrP' = 0
                        /\ UNCHANGED rec_recording
                   ELSE /\ receiver' = "none"
                        /\ rec_error_text' = TRUE
                        /\ rec_recording' = FALSE
                        /\ UNCHANGED <<sinkVars, sdrVars>>
       ELSE /\ receiver' = "none"
            /\ UNCHANGED <<rec_recording, rec_error_text, stop_requested, sinkVars, sdrVars>>
  /\ UNCHANGED <<ctlLeft, pipeVars, ctrVars, batchVars, fileVars, callerVars,
                 snVars, stopVars, cfgVars, tsVars, fnVars, logVars, rmsVars, stampVars, procVars, skipVars, obsVars>>

\* =========================================================================
\* Pipeline.execute: recorder end and the cancel test after the sweep
\* =========================================================================

\* recorder.py:67-73 on_record_end: stop_receiver (stop + wait joins the
\* streaming thread), disconnect_receiver when sdr_shutdown_after_recording,
\* self.recording = False
OnRecordEnd(c) ==
  /\ pc[c] = "ore"
  /\ snPc[c] = "none"
  /\ receiver = "streaming" => sdrPc = "idle"
  /\ receiver' = IF shutdown \/ receiver = "none" THEN "none" ELSE "created"
  /\ rec_recording' = FALSE
  /\ Log(B(c), "endCalls", blog[B(c)].endCalls + 1)
  /\ Goto(c, IF loc[c].after = "ret" THEN "fin" ELSE "chk2")
  /\ UNCHANGED <<loc, rec_error_text, stop_requested, pipeVars, ctrVars, sinkVars,
                 batchVars, fileVars, snVars, sdrVars, stopVars, cfgVars, tsVars, fnVars, logVars, rmsVars, stampVars, procVars, ctlVars, skipVars,
                 batchesLeft, hist, expected, winOpen, expRun, frameNo>>

\* the test of pipeline.py:156 left out: processing always follows the sweep
CancelledAfterSweepMissing(c) == FALSE

\* the test of pipeline.py:156 reduced to "if cancelled": the status flag is
\* not consulted
CancelledBySweepOnly(c) == loc[c].cancelled

\* pipeline.py:156  if cancelled or status.cancel_requested
CancelledAfterSweep(c) == loc[c].cancelled \/ status[B(c)].cancel_requested

\* pipeline.py:156-162
CheckCancelAfterSweep(c) ==
  /\ pc[c] = "chk2"
  /\ blog' = [blog EXCEPT
                ![B(c)].cancelAt = IF loc[c].cancelled \/ status[B(c)].cancel_requested
                                     THEN "sweep" ELSE "none",
                ![B(c)].procCalls = IF CancelledAfterSweep(c) THEN @ ELSE @ + 1]
  /\ IF CancelledAfterSweep(c)
       THEN /\ Goto(c, "fin")
            /\ loc' = [loc EXCEPT ![c] = AtEnd(loc[c])]
       ELSE /\ loc' = [loc EXCEPT ![c].si = 1]
            /\ Goto(c, "ps_set")
  /\ UNCHANGED <<pipeVars, ctrVars, recVars, sinkVars, batchVars, fileVars, snVars,
                 sdrVars, stopVars, cfgVars, tsVars, fnVars, logVars, rmsVars, stampVars, procVars, ctlVars, skipVars, batchesLeft, hist, expected, winOpen, expRun, frameNo>>

\* =========================================================================
\* Pipeline.process_sets and data_exporter.process_spectrum_data
\* =========================================================================

\* data_exporter.py:120-140 _get_db_configurations
DbConfigs(b) == IF params[b].is_calibration THEN NumDbConfigs ELSE 1

\* pipeline.py:179-183 next recorded set: capture_params1 = deepcopy(
\* capture_params); data_exporter.py:49-53
ProcessNextSet(c) ==
  /\ pc[c] = "ps_set"
  /\ IF loc[c].si > loc[c].nrec
       THEN /\ Goto(c, "ps_cal")
            /\ UNCHANGED <<loc, status, params1>>
       ELSE /\ params1' = [params1 EXCEPT ![c] = params[B(c)]]
            /\ status' = [status EXCEPT ![B(c)].current_job_number = 0]
            /\ loc' = [loc EXCEPT ![c].number = 0, ![c].ri = 1, ![c].results = 0]
            /\ Goto(c, "psd_run")
  /\ UNCHANGED <<params, runs, pipeVars, ctrVars, recVars, sinkVars, fileVars, snVars,
                 sdrVars, stopVars, cfgVars, tsVars, fnVars, logVars, rmsVars, stampVars, ctlVars, skipVars, obsVars>>

\* log.py:32-39 _key_for_run: (capture_set_id, counter, id) of a run; set is
\* "set" for the capture set and "roi" for its ROI set
KeyForRun(set, k, run) == [set |-> set, id |-> k[2], counter |-> run.counter]

\* log.py:61-74 collect_log_text: an entry of the buffer under the run's key,
\* with the batch that collected it (observer)
LogEntry(b, set, k, run) == [key |-> KeyForRun(set, k, run), of |-> b]

\* log.py:81-83, 135-136, 158 the entries of a key, and the buffer without them
WithKey(buf, key) == {e \in buf : e.key = key}

\* data_exporter.py:54-75 top of the runs loop: cancel test,
\* clear_collected_log_texts(run), load_and_crop_data.
\* A run without raw_filename raises in os.path.exists(None) and a missing
\* file yields data None: both go on with the next run, uncounted.  Loading
\* collects a message for the run (fft_data.py:44, 47); with data None it is
\* written at once (data_exporter.py:72).
ProcessRun(c) ==
  /\ pc[c] = "psd_run"
  /\ IF loc[c].ri > plan[loc[c].si] \/ status[B(c)].cancel_requested
       THEN /\ Goto(c, "ps_chk") /\ UNCHANGED loc
       ELSE IF raw_filename[RunKey(c)] /\ raw_exists[RunKey(c)]
              THEN /\ loc' = [loc EXCEPT ![c].cfg = 0] /\ Goto(c, "psd_db")
              ELSE /\ loc' = [loc EXCEPT ![c].ri = @ + 1] /\ UNCHANGED pc
  /\ IF loc[c].ri > plan[loc[c].si] \/ status[B(c)].cancel_requested
       THEN UNCHANGED logVars
       ELSE LET key == KeyForRun("set", RunKey(c), runs[RunKey(c)]) IN
              /\ log_lost' = log_lost \cup WithKey(log_buffer, key)
              /\ log_buffer' =
                   IF raw_filename[RunKey(c)] /\ raw_exists[RunKey(c)]
                     THEN (log_buffer \ WithKey(log_buffer, key))
                            \cup {LogEntry(B(c), "set", RunKey(c), runs[RunKey(c)])}
                     ELSE log_buffer \ WithKey(log_buffer, key)
  /\ UNCHANGED <<pipeVars, ctrVars, recVars, sinkVars, batchVars, fileVars, snVars,
                 sdrVars, stopVars, cfgVars, tsVars, fnVars, rmsVars, stampVars, procVars, ctlVars, skipVars, obsVars>>

\* data_exporter.py:128-136 the offsets and names of db_configs in calibration
\* mode; outside it the one configuration is the first
DbOffsets == <<0, -12, -6, -3, 3, 6, 12>>
CalibNotes == <<"calib [+0 dB]", "calib [-12 dB]", "calib [-6 dB]", "calib [-3 dB]",
                "calib [+3 dB]", "calib [+6 dB]", "calib [+12 dB]">>

\* data_exporter.py:82-83, 88-89 what configuration n stores in the
\* CaptureParams it was handed
ApplyDbConfig(p, n) ==
  [p EXCEPT !.note = IF p.is_calibration THEN CalibNotes[n + 1] ELSE @,
            !.min_db_val = <<BaseMinDb + DbOffsets[n + 1]>>,
            !.max_db_val = <<BaseMaxDb + DbOffsets[n + 1]>>]

\* the run handed to process() keeps the counter of the run
RunForProcessingSame(run, p, n) == run

\* data_exporter.py:81-86 run_for_processing: the run, or in calibration mode
\* for configurations after the first a deep copy with counter + config_num
RunForProcessing(run, p, n) ==
  IF p.is_calibration /\ n > 0 THEN [run EXCEPT !.counter = @ + n] ELSE run

\* data_exporter.py:77-94 one dB configuration: process() writes one plot and
\* one plot-metadata row per plot type and yields one ProcessingResult;
\* (calculate_rms collects messages for the run it is handed: analysis.py:181);
\* data_exporter.py:106-113 after the loop write_log_text(run) writes and
\* removes the entries of the run's key and the run is counted
ProcessDbConfig(c) ==
  /\ pc[c] = "psd_db"
  /\ IF loc[c].cfg >= DbConfigs(B(c)) \/ status[B(c)].cancel_requested
       THEN /\ loc' = [loc EXCEPT ![c].number = @ + 1, ![c].ri = @ + 1]
            /\ status' = [status EXCEPT ![B(c)].current_job_number = loc[c].number + 1]
            /\ Goto(c, "psd_run")
            /\ log_buffer' = log_buffer \ WithKey(log_buffer,
                                                   KeyForRun("set", RunKey(c), runs[RunKey(c)]))
            /\ UNCHANGED <<blog, params1>>
       ELSE /\ loc' = [loc EXCEPT ![c].cfg = @ + 1, ![c].results = @ + 1]
            /\ params1' = [params1 EXCEPT ![c] = ApplyDbConfig(@, loc[c].cfg)]
            /\ log_buffer' = log_buffer \cup
                 {LogEntry(B(c), "set", RunKey(c),
                           RunForProcessing(runs[RunKey(c)], params1[c], loc[c].cfg))}
            /\ blog' = [blog EXCEPT
                  ![B(c)].plotRows = @ + 1,
                  ![B(c)].used = @ \cup {Used("processed", loc[c].cfg,
                                              RunForProcessing(runs[RunKey(c)], params1[c],
                                                               loc[c].cfg))}]
            /\ UNCHANGED <<pc, status>>
  /\ UNCHANGED <<params, runs, log_lost, pipeVars, ctrVars, recVars, sinkVars, fileVars, snVars,
                 sdrVars, stopVars, cfgVars, tsVars, fnVars, rmsVars, stampVars, ctlVars, skipVars, batchesLeft, hist, expected, winOpen, expRun, frameNo>>

\* pipeline.py:219-228 _cleanup_raw_files of the set just processed
CleanedUp(b, s) ==
  [k \in RunKeys |->
     IF ~KeepRawFiles /\ k[1] = b /\ k[2] > RunsBefore(s) /\ k[2] <= RunsBefore(s) + plan[s]
       THEN FALSE ELSE raw_exists[k]]

\* pipeline.py:185-201: cancel test, then _finalize_processing (pipeline.py:
\* 210-217: daily grids per plot type and one row in each RMS CSV when there
\* are results), ROI post-processing, raw file cleanup
FinalizeSet(c) ==
  /\ pc[c] = "ps_chk"
  /\ IF status[B(c)].cancel_requested
       THEN /\ Goto(c, "ps_cal")
            /\ UNCHANGED <<loc, blog, raw_exists>>
       ELSE /\ blog' = [blog EXCEPT
                          ![B(c)].grids = @ + (IF loc[c].results > 0 THEN 1 ELSE 0),
                          ![B(c)].rmsRows = @ + (IF loc[c].results > 0 THEN 1 ELSE 0)]
            /\ IF loc[c].results > 0 /\ timeslice_autogenerate
                 THEN /\ Goto(c, "ts_guard")
                      /\ loc' = [loc EXCEPT ![c].plot = 1]
                      /\ UNCHANGED raw_exists
                 ELSE IF roi_enabled
                 THEN /\ Goto(c, "ps_roi")
                      /\ UNCHANGED <<loc, raw_exists>>
                 ELSE /\ raw_exists' = CleanedUp(B(c), loc[c].si)
                      /\ loc' = [loc EXCEPT ![c].si = @ + 1]
                      /\ Goto(c, "ps_set")
  /\ UNCHANGED <<raw_filename, raw_written, pipeVars, ctrVars, recVars, sinkVars,
                 batchVars, snVars, sdrVars, stopVars, cfgVars, tsVars, fnVars, logVars, rmsVars, stampVars, procVars, ctlVars, skipVars,
                 batchesLeft, hist, expected, winOpen, expRun, frameNo>>

\* the time-slice PNG that caller c is at: plot type loc[c].plot, anchor hour
\* the hour of recording_start_datetime (data_exporter.py:282)
TimeSliceFile(c) == <<loc[c].plot, params[B(c)].start_hour>>

\* data_exporter.py:287-288 the next plot type, or back to process_sets
NextPlotType(c) ==
  IF loc[c].plot < Len(PlotTypes)
    THEN /\ loc' = [loc EXCEPT ![c].plot = @ + 1]
         /\ Goto(c, "ts_guard")
    ELSE /\ loc' = [loc EXCEPT ![c].plot = 0]
         /\ Goto(c, "ps_fin")

\* imge_grid_timeslice.py:119-124 the output file exists and its mtime lies
\* in [hour_start, hour_end) of datetime.now()
RenderedThisHour(file) == ts_mtime[file] # NoFile /\ ts_mtime[file] = wall_hour

\* imge_grid_timeslice.py:116-127 the once-per-hour guard of
\* generate_time_slice_grid: return when the file was rendered this hour
TimeSliceGuard(c) ==
  /\ pc[c] = "ts_guard"
  /\ IF RenderedThisHour(TimeSliceFile(c))
       THEN NextPlotType(c)
       ELSE Goto(c, "ts_save") /\ UNCHANGED loc
  /\ UNCHANGED <<pipeVars, ctrVars, recVars, sinkVars, batchVars, fileVars, snVars, sdrVars,
                 stopVars, cfgVars, tsVars, fnVars, logVars, rmsVars, stampVars, procVars, ctlVars,
                 skipVars, obsVars>>

\* imge_grid_timeslice.py:129-247 the grid composed from the days' plots of
\* the anchor hour and saved: the file's mtime is the time of the save
TimeSliceSave(c) ==
  /\ pc[c] = "ts_save"
  /\ ts_mtime' = [ts_mtime EXCEPT ![TimeSliceFile(c)] = wall_hour]
  /\ ts_writes' = [ts_writes EXCEPT ![TimeSliceFile(c)][wall_hour] = IF @ < 2 THEN @ + 1 ELSE @]
  /\ NextPlotType(c)
  /\ UNCHANGED <<wall_hour, pipeVars, ctrVars, recVars, sinkVars, batchVars, fileVars, snVars,
                 sdrVars, stopVars, cfgVars, fnVars, logVars, rmsVars, stampVars, procVars, ctlVars,
                 skipVars, obsVars>>

\* pipeline.py:193-201 after _finalize_processing: ROI post-processing, raw
\* file cleanup
FinishSet(c) ==
  /\ pc[c] = "ps_fin"
  /\ IF roi_enabled
       THEN /\ Goto(c, "ps_roi")
            /\ UNCHANGED <<loc, raw_exists>>
       ELSE /\ raw_exists' = CleanedUp(B(c), loc[c].si)
            /\ loc' = [loc EXCEPT ![c].si = @ + 1]
            /\ Goto(c, "ps_set")
  /\ UNCHANGED <<raw_filename, raw_written, pipeVars, ctrVars, recVars, sinkVars,
                 batchVars, snVars, sdrVars, stopVars, cfgVars, tsVars, fnVars, logVars, rmsVars, stampVars, procVars, ctlVars, skipVars,
                 obsVars>>

\* the wall clock enters the next hour; only the time-slice generation reads
\* the hour
HourTick ==
  /\ timeslice_autogenerate
  /\ wall_hour < MaxHours
  /\ wall_hour' = wall_hour + 1
  /\ UNCHANGED <<ts_mtime, ts_writes, pipeVars, ctrVars, recVars, sinkVars, batchVars, fileVars,
                 callerVars, snVars, sdrVars, stopVars, cfgVars, fnVars, logVars, rmsVars, stampVars,
                 procVars, ctlVars, skipVars, obsVars>>

\* the ROI store's entries for a capture set, by capture_spec_id: the set's
\* spec at that position, 0 being an id that no spec of the set has
RoiEntries == <<0, 1, 2>>

\* roi_store.py:248, 268-275 the source run of ROI entry i of set s: the
\* run of this set whose id is the entry's capture_spec_id
RoiSource(b, s, i) == <<b, RunsBefore(s) + RoiEntries[i]>>

\* roi_store.py:248 run_by_id holds the set's runs that have a raw_filename
InRunById(b, s, i) ==
  /\ RoiEntries[i] \in 1..plan[s]
  /\ raw_filename[RoiSource(b, s, i)]

\* the loop over the entries with the first entry without source run ending it
RECURSIVE RoiRunsUntilMissing(_, _, _)
RoiRunsUntilMissing(b, s, i) ==
  IF i > Len(RoiEntries) \/ ~InRunById(b, s, i) THEN <<>>
  ELSE <<[entry |-> i, source |-> RoiSource(b, s, i)]>> \o RoiRunsUntilMissing(b, s, i + 1)

\* roi_store.py:253-304 the loop over the entries from entry i on: an entry
\* without source run is skipped (continue), the others append a virtual run
\* that reads the source run's raw file
RECURSIVE RoiRuns(_, _, _)
RoiRuns(b, s, i) ==
  IF i > Len(RoiEntries) THEN <<>>
  ELSE IF InRunById(b, s, i)
         THEN <<[entry |-> i, source |-> RoiSource(b, s, i)]>> \o RoiRuns(b, s, i + 1)
         ELSE RoiRuns(b, s, i + 1)

\* roi_store.py:285-297 the virtual run: counter, date_string and time are
\* those of the source run
RoiRun(source_run) ==
  [counter |-> source_run.counter, time |-> source_run.time,
   date_string |-> source_run.date_string]

\* data_exporter.py:78-89 the configurations first..last applied in turn to
\* the CaptureParams handed to process_spectrum_data
RECURSIVE ApplyDbConfigs(_, _, _)
ApplyDbConfigs(p, first, last) ==
  IF first > last THEN p ELSE ApplyDbConfigs(ApplyDbConfig(p, first), first + 1, last)

\* pipeline.py:193-200 process_rois (roi_store.py:226-328), then the raw file
\* cleanup.  process_spectrum_data is handed the virtual runs and the
\* CaptureParams that process_rois received (roi_store.py:311), and
\* processes each run whose raw file loads while no cancel is requested.
ProcessRois(c) ==
  /\ pc[c] = "ps_roi"
  /\ LET b == B(c)
         s == loc[c].si
         roi_runs == RoiRuns(b, s, 1)
         last == DbConfigs(b) - 1
         Rr(j) == RoiRun(runs[roi_runs[j].source])
         Id(j) == <<b, roi_runs[j].entry>>
         done == IF status[b].cancel_requested THEN {}
                 ELSE {j \in 1..Len(roi_runs) : raw_exists[roi_runs[j].source]}
     IN IF roi_runs # <<>>
          THEN /\ status' = [status EXCEPT ![b].current_job_number = Cardinality(done)]
               /\ params' = [params EXCEPT
                     ![b] = IF done # {} THEN ApplyDbConfigs(@, 0, last) ELSE @]
               /\ blog' = [blog EXCEPT
                     ![b].used = @ \cup {Used("roi", 0, Rr(j)) : j \in 1..Len(roi_runs)}
                                   \cup {Used("roi", n, RunForProcessing(Rr(j), params[b], n)) :
                                           j \in done, n \in 0..last},
                     ![b].roiRuns = @ \cup {[set |-> s, entry |-> roi_runs[j].entry,
                                             raw_filename |-> roi_runs[j].source] :
                                              j \in 1..Len(roi_runs)}]
               /\ log_buffer' =
                    LET all == log_buffer \cup
                                 {LogEntry(b, "roi", Id(j), RunForProcessing(Rr(j), params[b], n)) :
                                    j \in done, n \in 0..last}
                    IN all \ UNION {WithKey(all, KeyForRun("roi", Id(j), Rr(j))) : j \in done}
          ELSE UNCHANGED <<status, params, blog, log_buffer>>
  /\ raw_exists' = CleanedUp(B(c), loc[c].si)
  /\ loc' = [loc EXCEPT ![c].si = @ + 1]
  /\ Goto(c, "ps_set")
  /\ UNCHANGED <<raw_filename, raw_written, log_lost, pipeVars, ctrVars, recVars, sinkVars,
                 snVars, sdrVars, stopVars, cfgVars, tsVars, fnVars, rmsVars, stampVars, procVars, ctlVars, skipVars,
                 batchesLeft, hist, expected, winOpen, expRun, frameNo>>

\* pipeline.py:203-208  adjust counter after calibration
CalibrationAdjust(c) ==
  /\ pc[c] = "ps_cal"
  /\ IF params[B(c)].is_calibration
       THEN /\ loc' = [loc EXCEPT ![c] = [AtEnd(loc[c]) EXCEPT !.incLeft = NumDbConfigs - 1,
                                                              !.after = "calib"]]
            /\ Goto(c, "inc_read")
       ELSE /\ Goto(c, "fin") /\ loc' = [loc EXCEPT ![c] = AtEnd(loc[c])]
  /\ UNCHANGED <<pipeVars, ctrVars, recVars, sinkVars, batchVars, fileVars, snVars,
                 sdrVars, stopVars, cfgVars, tsVars, fnVars, logVars, rmsVars, stampVars, procVars, ctlVars, skipVars, obsVars>>

\* pipeline.py:168-175 except/finally of execute (clear_all_collected_log_texts
\* empties the buffer), then pipeline.py:104-108
\* finally of execute_capture: recording_status = None, recording = False.
\* From "exc" the exception goes on to the caller of execute_capture.
Finish(c) ==
  /\ pc[c] \in {"fin", "exc"}
  /\ snPc[c] = "none"
  /\ recording_status' = None
  /\ recording' = FALSE
  /\ record_start_time' = 0
  /\ UNCHANGED error_text
  /\ log_lost' = log_lost \cup {e \in log_buffer : e.of = B(c)}
  /\ log_buffer' = {}
  /\ Log(B(c), "exit", IF pc[c] = "exc" THEN "raised" ELSE "returned")
  /\ Goto(c, "done")
  /\ UNCHANGED <<loc, ctrVars, recVars, sinkVars, batchVars, fileVars, snVars,
                 sdrVars, stopVars, cfgVars, tsVars, fnVars, rmsVars, stampVars, procVars, ctlVars, skipVars, batchesLeft, hist, expected, winOpen, expRun, frameNo>>

\* execute_capture has returned or raised: the thread ends and the objects of
\* the batch (RecordingStatus, CaptureParams, CaptureRuns) are dropped
Return(c) ==
  /\ pc[c] = "done"
  /\ Goto(c, "idle")
  /\ loc' = [loc EXCEPT ![c] = NewLoc]
  /\ status' = [status EXCEPT ![c] = NewStatus]
  /\ params' = [params EXCEPT ![c] = NewParams]
  /\ blog' = [blog EXCEPT ![c] = NewLog]
  /\ raw_filename' = [k \in RunKeys |-> IF k[1] = c THEN FALSE ELSE raw_filename[k]]
  /\ raw_written' = [k \in RunKeys |-> IF k[1] = c THEN <<>> ELSE raw_written[k]]
  /\ raw_exists' = [k \in RunKeys |-> IF k[1] = c THEN FALSE ELSE raw_exists[k]]
  /\ capture_start_time' = [k \in RunKeys |-> IF k[1] = c THEN FALSE ELSE capture_start_time[k]]
  /\ params1' = [params1 EXCEPT ![c] = NewParams]
  /\ runs' = [k \in RunKeys |-> IF k[1] = c THEN NewRun ELSE runs[k]]
  /\ UNCHANGED <<pipeVars, ctrVars, recVars, sinkVars, snVars, sdrVars, stopVars,
                 cfgVars, tsVars, fnVars, logVars, rmsVars, ctlVars, skipVars, batchesLeft, hist, expected, winOpen, expRun, frameNo>>

\* =========================================================================
\* data/rms.py: the RMS CSV of one capture set.  A file is the sequence of
\* its lines and a line the sequence of its cells, as split(',') and strip()
\* read them back; the header cells are names, the data cells the integers
\* whose decimal text the file holds, Blank the empty text.  <<>> is the
\* missing file.
\* =========================================================================

MaxCsvCalls == 3        \* write_csv calls on the file
MaxIds == 2             \* len(capture_ids) of one call

\* spec ids of the plan and of the ROI store; "total" is an id that the
\* pattern of save_roi_config admits
SpecIds == {"a", "b", "total"}
\* result.rms_normalized / rms_truncated: None or a number
NoValue == -3
RmsValues == {NoValue, 1, 2}
\* the cells of a data row that are not numbers of the batch
Blank == -2
DateText == 100
TimeText == 200

\* rms.py:124, 234  "counter, date, time, note, total, avg, " + columns
MetaColumns == <<"counter", "date", "time", "note", "total", "avg">>

\* the non-empty id lists and the value lists of the same length
IdLists == UNION {[1..n -> SpecIds] : n \in 1..MaxIds}
ValueLists(n) == [1..n -> RmsValues]

\* list.index(x): the first position of x
IndexOf(seq, x) == CHOOSE i \in 1..Len(seq) : seq[i] = x /\ \A j \in 1..(i - 1) : seq[j] # x
Contains(seq, x) == \E i \in 1..Len(seq) : seq[i] = x

\* rms.py:50-74 _read_csv_spec_columns: the cells of the first line after the
\* first "avg"
ReadCsvSpecColumns(f) ==
  IF f = <<>> THEN <<>>
  ELSE IF Contains(f[1], "avg")
         THEN SubSeq(f[1], IndexOf(f[1], "avg") + 1, Len(f[1]))
         ELSE <<>>

\* _merge_spec_columns putting an id that is new in front of the old columns
MergeSpecColumnsInFront(existing, ids) ==
  IF ids = <<>> \/ Contains(existing, Head(ids)) THEN existing
  ELSE <<Head(ids)>> \o existing

\* rms.py:77-97 _merge_spec_columns
RECURSIVE MergeSpecColumns(_, _)
MergeSpecColumns(existing, ids) ==
  IF ids = <<>> THEN existing
  ELSE MergeSpecColumns(IF Contains(existing, Head(ids)) THEN existing
                        ELSE Append(existing, Head(ids)), Tail(ids))

\* rms.py:189-192 current_specs: round(value), 0 for None; a later entry of
\* the same id replaces an earlier one
RoundValue(v) == IF v = NoValue THEN 0 ELSE v
CurrentSpec(ids, vals, col, default) ==
  IF Contains(ids, col)
    THEN RoundValue(vals[CHOOSE i \in 1..Len(ids) :
                           ids[i] = col /\ \A j \in (i + 1)..Len(ids) : ids[j] # col])
    ELSE default

\* csv.DictReader at rms.py:113-117: dict(zip(fieldnames, row)), a later
\* field of the same name replaces an earlier one, a short row is filled
\* with None, which the cleaning turns into ''
RowGet(header, row, name, default) ==
  IF Contains(header, name)
    THEN LET i == CHOOSE k \in 1..Len(header) :
                    header[k] = name /\ \A j \in (k + 1)..Len(header) : header[j] # name
         IN IF i <= Len(row) THEN row[i] ELSE Blank
    ELSE default

\* a row longer than the header puts the rest under the key None, and
\* k.strip() raises (rms.py:116); the file is left as it was (rms.py:159-161)
RewriteRaises(f) == \E r \in 2..Len(f) : Len(f[r]) > Len(f[1])

\* rms.py:128-147 one historical row under the new header
RewrittenRow(header, row, new_columns) ==
  [i \in 1..(Len(MetaColumns) + Len(new_columns)) |->
     IF i <= Len(MetaColumns)
       THEN RowGet(header, row, MetaColumns[i], Blank)
       ELSE RowGet(header, row, new_columns[i - Len(MetaColumns)], -1)]

\* rms.py:100-161 _rewrite_csv_with_new_columns
RewriteCsvWithNewColumns(f, new_columns) ==
  [r \in 1..Len(f) |->
     IF r = 1 THEN MetaColumns \o new_columns
     ELSE RewrittenRow(f[1], f[r], new_columns)]

\* Python round(): to the nearest integer, a tie to the even one
PyRoundDiv(total, n) ==
  LET q == total \div n
      r == total % n
  IN IF 2 * r < n THEN q
     ELSE IF 2 * r > n THEN q + 1
     ELSE IF q % 2 = 0 THEN q ELSE q + 1

\* rms.py:208 the row in canonical order, -1 for a column not in this call
RmsRowValues(columns, ids, vals) ==
  [i \in 1..Len(columns) |-> CurrentSpec(ids, vals, columns[i], -1)]

\* active_values without the filter: the -1 of a removed spec is averaged in
ActiveValuesUnfiltered(values) == values

\* rms.py:213 active_values
ActiveValues(values) == SelectSeq(values, LAMBDA v : v # -1)

\* rms.py:214-215 total and avg
RmsTotal(values) == SumSeq(ActiveValues(values))
RmsAvg(values) ==
  IF ActiveValues(values) = <<>> THEN 0
  ELSE PyRoundDiv(RmsTotal(values), Len(ActiveValues(values)))

\* rms.py:239-246 the data row: counter, date, time, note, total, avg, values
RmsDataRow(counter, values) ==
  <<counter, DateText, TimeText, Blank, RmsTotal(values), RmsAvg(values)>> \o values

\* rms.py:164-249 write_csv: the file after the call
WriteCsvFile(f, counter, ids, vals) ==
  LET existing_columns == ReadCsvSpecColumns(f)
      canonical_columns == MergeSpecColumns(existing_columns, ids)
      columns_changed == canonical_columns # existing_columns
      rms_values == RmsRowValues(canonical_columns, ids, vals)
      withHeader == IF columns_changed
                      THEN IF existing_columns # <<>>
                             THEN RewriteCsvWithNewColumns(f, canonical_columns)
                             ELSE << MetaColumns \o canonical_columns >>
                      ELSE f
  IN Append(withHeader, RmsDataRow(counter, rms_values))

\* write_csv raises out of the rewrite before it appends
WriteCsvRaises(f, ids) ==
  LET existing_columns == ReadCsvSpecColumns(f)
  IN /\ MergeSpecColumns(existing_columns, ids) # existing_columns
     /\ existing_columns # <<>>
     /\ RewriteRaises(f)

\* one call of write_csv with the results of a batch (rms.py:28-46)
WriteCsv ==
  /\ rmsCall.n < MaxCsvCalls
  /\ \E ids \in IdLists : \E vals \in ValueLists(Len(ids)) :
       /\ rmsCall' = [n |-> rmsCall.n + 1, ids |-> ids, vals |-> vals,
                      raised |-> WriteCsvRaises(csv, ids)]
       /\ csv' = IF WriteCsvRaises(csv, ids) THEN csv
                 ELSE WriteCsvFile(csv, rmsCall.n + 1, ids, vals)
  /\ UNCHANGED <<pipeVars, ctrVars, recVars, sinkVars, batchVars, fileVars, callerVars,
                 snVars, sdrVars, stopVars, cfgVars, tsVars, fnVars, logVars, ctlVars, skipVars, stampVars, procVars, obsVars>>


\* =========================================================================
\* Specification
\* =========================================================================

\* a step of the thread that runs execute_capture for caller c
CallerStep(c) ==
  \/ ExecuteCaptureSkip(c)
  \/ ExecuteCaptureGuard(c)
  \/ ExecuteCaptureSetFlag(c)
  \/ IncCounterRead(c)
  \/ IncCounterStore(c)
  \/ IncCounterFails(c)
  \/ OnRecordStart(c)
  \/ StartReceiver(c)
  \/ CheckCancelAfterStart(c)
  \/ ExecuteRecordings(c)
  \/ NextCaptureSet(c)
  \/ RunsLoopTop(c)
  \/ TuneReceiver(c)
  \/ StartRecord(c)
  \/ StartRecordSetRun(c)
  \/ WaitForSink(c)
  \/ CountRun(c)
  \/ ReadStopRequested(c)
  \/ ResetStopRequested(c)
  \/ OnRecordEnd(c)
  \/ CheckCancelAfterSweep(c)
  \/ ProcessNextSet(c)
  \/ ProcessRun(c)
  \/ ProcessDbConfig(c)
  \/ FinalizeSet(c)
  \/ TimeSliceGuard(c)
  \/ TimeSliceSave(c)
  \/ FinishSet(c)
  \/ ProcessRois(c)
  \/ CalibrationAdjust(c)
  \/ Finish(c)
  \/ Return(c)

\* a step of stop_now in thread t
StopNowStep(t) ==
  \/ StopNowCheck(t)
  \/ StopNowFinalize(t)

\* a step of the streaming thread inside process_recording
SdrStep ==
  \/ SdrAppend
  \/ SdrFinalize

Next ==
  \/ CronFire
  \/ StartRecordRoute
  \/ StopRoute
  \/ SdrControlCheck
  \/ SdrControlAct
  \/ SdrFrame
  \/ Tick
  \/ HourTick
  \/ SdrStep
  \/ \E c \in Callers : CallerStep(c)
  \/ \E t \in Stoppers : StopNowStep(t)

Spec == Init /\ [][Next]_vars

\* Every thread that can take a step eventually takes one and the wall clock
\* advances.  Nothing obliges the environment: a cron firing, a POST /start,
\* a POST /stop, or the SDR handing a frame to work().
\* the RMS CSV under a sequence of write_csv calls; the pipeline stays idle
RmsInit == Init /\ plan = <<1>> /\ ~scheduler /\ shutdown /\ ctlLeft = 0

RmsNext == WriteCsv

RmsSpec == RmsInit /\ [][RmsNext]_vars

\* =========================================================================
\* Calls studied on their own: sdr_factory.set_sdr_gain, image_grid.
\* _prepare_grid_data and roi_store.save_roi_config(load_roi_config()).  The
\* pipeline stays idle; the initial state holds the arguments of one call.
\* =========================================================================

\* sdr_rtlsdr.py:94-105 set_rtlsdr_gain: the gain handed to set_gain and
\* whether a warning was logged
SetRtlsdrGain(rf_gain) ==
  [set_rf |-> rf_gain, set_if |-> 0, warned |-> rf_gain < 0 \/ rf_gain > 50]

\* sdr_sdrplay.py:113-150 set_sdrplay_gain: the gains handed to set_gain
\* for 'RF' and 'IF' and whether a warning was logged
SetSdrplayGain(rf_gain, if_gain) ==
  [set_rf |-> IF rf_gain > 0 THEN 0 ELSE rf_gain,
   set_if |-> IF if_gain > -20 THEN -20 ELSE IF if_gain < -59 THEN -59 ELSE if_gain,
   warned |-> rf_gain > 0 \/ rf_gain < -60 \/ if_gain > -20 \/ if_gain < -59]

\* sdr_factory.py:50-56 set_sdr_gain, called when the receiver is created
\* (fft_receiver.py:92-94)
SetSdrGain ==
  /\ gain.device # "none" /\ ~gain.done
  /\ LET r == IF gain.device = "rtlsdr" THEN SetRtlsdrGain(gain.rf_gain)
              ELSE SetSdrplayGain(gain.rf_gain, gain.if_gain)
     IN gain' = [gain EXCEPT !.done = TRUE, !.set_rf = r.set_rf, !.set_if = r.set_if,
                             !.warned = r.warned]
  /\ UNCHANGED <<grid, roi_file, pipeVars, ctrVars, recVars, sinkVars, batchVars, fileVars,
                 callerVars, snVars, sdrVars, stopVars, cfgVars, tsVars, logVars, rmsVars,
                 stampVars, procVars, ctlVars, skipVars, obsVars>>

\* image_grid.py:163-167 parse_hour of a time_string, here its hour field
ParseHour(hh) == IF hh < 0 THEN 0 ELSE IF hh > 23 THEN 23 ELSE hh

\* image_grid.py:169-172 window_label: start of the window of an hour
WindowStart(hour, window) == (hour \div window) * window

\* image_grid.py:184-214 the counters of the rows of the grid, in grid
\* order.  meta[k] is the hour of the time_string of counter k; the rows are
\* sorted by counter (reversed when sort_latest_first), cut to max_rows, and
\* filtered to the window of the first row that is left.
PrepareGridRows(meta, sort_latest_first, max_rows, window) ==
  LET n == Len(meta)
      sorted_arr2 == [i \in 1..n |-> IF sort_latest_first THEN n + 1 - i ELSE i]
      kept == IF max_rows > 0 /\ n > max_rows THEN SubSeq(sorted_arr2, 1, max_rows)
              ELSE sorted_arr2
      start_h == WindowStart(ParseHour(meta[kept[1]]), window)
      end_h == IF start_h + window > 24 THEN 24 ELSE start_h + window
      InWindow(k) == start_h <= ParseHour(meta[k]) /\ ParseHour(meta[k]) < end_h
  IN SelectSeq(kept, InWindow)

\* image_grid.py:150-275 _prepare_grid_data for the metadata of one day
PrepareGridData ==
  /\ grid.meta # <<>> /\ ~grid.done
  /\ grid' = [grid EXCEPT !.done = TRUE,
                !.rows = PrepareGridRows(grid.meta, grid.sort_latest_first,
                                         grid.max_rows, grid.window)]
  /\ UNCHANGED <<gain, roi_file, pipeVars, ctrVars, recVars, sinkVars, batchVars, fileVars,
                 callerVars, snVars, sdrVars, stopVars, cfgVars, tsVars, logVars, rmsVars,
                 stampVars, procVars, ctlVars, skipVars, obsVars>>

\* An ROI file is [pe, extra, rois]: the JSON text of "processing_enabled",
\* whether the object has a further key, and the entries; an entry is [keys,
\* numeric, roi_id]: whether it has the required keys, whether float() takes
\* its center_khz and span_khz, and its roi_id.
\* roi_store.py:62-95 load_roi_config
LoadRoiConfig(f) ==
  LET Valid(e) == e.keys /\ e.numeric
  IN [processing_enabled |-> f.pe \in {"true", "1"}, rois |-> SelectSeq(f.rois, Valid)]

\* roi_store.py:172-223 save_roi_config on the file f: a ValueError leaves
\* the file as it is, otherwise the file holds the two keys
SaveRoiConfig(cfg, f) ==
  LET Valid(e) == e.keys /\ e.roi_id \in {"band 1", " 40m "} /\ e.numeric
  IN IF \E i \in 1..Len(cfg.rois) : ~Valid(cfg.rois[i])
       THEN [raised |-> TRUE, file |-> f]
       ELSE [raised |-> FALSE,
             file |-> [pe |-> IF cfg.processing_enabled THEN "true" ELSE "false",
                       extra |-> FALSE, rois |-> cfg.rois]]

\* save_roi_config(load_roi_config())
SaveLoadedRoiConfig ==
  /\ roi_file.before # NoRoiFile /\ ~roi_file.done
  /\ LET r == SaveRoiConfig(LoadRoiConfig(roi_file.before), roi_file.before)
     IN roi_file' = [roi_file EXCEPT !.done = TRUE, !.raised = r.raised, !.after = r.file]
  /\ UNCHANGED <<gain, grid, pipeVars, ctrVars, recVars, sinkVars, batchVars, fileVars,
                 callerVars, snVars, sdrVars, stopVars, cfgVars, tsVars, logVars, rmsVars,
                 stampVars, procVars, ctlVars, skipVars, obsVars>>

\* the arguments of one call: a device with configured gains up to GainReach
\* outside its ranges; or the metadata of a day, the hours not decreasing
\* with the counter, and the grid options; or an ROI file
FnInit ==
  /\ PipelineInit /\ plan = <<1>> /\ ~scheduler /\ shutdown /\ ctlLeft = 0
  /\ \/ /\ \E d \in {"rtlsdr", "sdrplay"}, rf \in (-60 - GainReach)..(50 + GainReach) :
          \E if \in IF d = "rtlsdr" THEN {-35} ELSE (-59 - GainReach)..(-20 + GainReach) :
            gain = [FnIdle.gain EXCEPT !.device = d, !.rf_gain = rf, !.if_gain = if]
        /\ grid = FnIdle.grid /\ roi_file = FnIdle.roi_file
     \/ /\ \E n \in 1..MaxGridRows : \E m \in [1..n -> {3, 11, 12, 14}] :
          \E slf \in BOOLEAN, mr \in 0..MaxGridRows, w \in {6, 12} :
            /\ \A i \in 1..(n - 1) : m[i] <= m[i + 1]
            /\ grid = [FnIdle.grid EXCEPT !.meta = m, !.sort_latest_first = slf,
                                          !.max_rows = mr, !.window = w]
        /\ gain = FnIdle.gain /\ roi_file = FnIdle.roi_file
     \/ /\ \E n \in 0..MaxRoiEntries :
          \E f \in [pe : {"true", "false", "1"}, extra : BOOLEAN,
                    rois : [1..n -> [keys : BOOLEAN, numeric : BOOLEAN,
                                     roi_id : {"band 1", " 40m ", "a/b", ""}]]] :
            roi_file = [FnIdle.roi_file EXCEPT !.before = f]
        /\ gain = FnIdle.gain /\ grid = FnIdle.grid

FnNext == SetSdrGain \/ PrepareGridData \/ SaveLoadedRoiConfig

FnSpec == FnInit /\ [][FnNext]_vars

FairSpec ==
  /\ Spec
  /\ \A c \in Callers : WF_vars(CallerStep(c))
  /\ \A t \in Stoppers : WF_vars(StopNowStep(t))
  /\ WF_vars(SdrStep)
  /\ WF_vars(Tick)

\* =========================================================================
\* Properties
\* =========================================================================

\* the callers between the guard of execute_capture and its return
InCapture == {c \in Callers : pc[c] \notin {"idle", "guard", "done"}}

\* C1: at most one call of execute_capture is between the guard and the
\* finally block at any time, with the cron worker and the thread of POST
\* /start calling it concurrently.
C1_SingleCapture == Cardinality(InCapture) <= 1

\* C2: once a call that passed the guard has ended, in whatever way (return,
\* exception in the counter increment or in the parameter setup), and no
\* other call is in progress, recording is false and recording_status is None.
C2_FlagsClearedAtEnd ==
  \A c \in Callers :
    (pc[c] = "done" /\ InCapture = {}) => (recording = FALSE /\ recording_status = None)

\* C3: the counter of a batch is the counter of the batch before it plus 1,
\* plus 6 more if the batch before it was a calibration batch, however that
\* batch ended (completed, cancelled, SDR start failure); stated for a batch
\* that started after the one before it had ended.
C3_CounterStep ==
  (Len(hist) = 2 /\ hist[2].alone /\ hist[1].counter > 0 /\ hist[2].counter > 0)
    => hist[2].counter = hist[1].counter + 1
                           + (IF hist[1].calib THEN NumDbConfigs - 1 ELSE 0)

\* C4: the counters handed to batches are strictly increasing in the order
\* in which the batches passed the guard, under any interleaving.
C4_CountersIncrease ==
  (Len(hist) = 2 /\ hist[1].counter > 0 /\ hist[2].counter > 0)
    => hist[1].counter < hist[2].counter

\* C5: after a stop request made during the sweep of a batch, start_record
\* is not invoked for any run after the one the sweep was at, in the same
\* capture set or in a later one.
C5_NoStartAfterStop == \A c \in Callers : ~blog[c].startedAfterStop

C7_CancelSkipsProcessing ==
  \A c \in Callers :
    (blog[c].cancelAt # "none" /\ pc[c] \in {"fin", "done"})
      => /\ blog[c].endCalls = 1
         /\ blog[c].procCalls = 0
         /\ blog[c].rmsRows = 0 /\ blog[c].plotRows = 0 /\ blog[c].grids = 0

\* a batch that found the cancel flag set right after on_record_start has
\* returned
C7_Witness ==
  \E c \in Callers :
    blog[c].cancelAt = "start" /\ pc[c] = "done" /\ blog[c].exit = "returned"

\* C8: when the SDR source cannot be created or armed, on_record_start
\* returns false with the error text stored, and execute_capture returns
\* normally.
C8_StartFailureReturnsFalse ==
  \A c \in Callers :
    (blog[c].sdrFault /\ pc[c] = "done")
      => /\ blog[c].startRes = "false"
         /\ blog[c].errStored
         /\ blog[c].exit = "returned"

\* C9: a recorder that waits for the sink eventually leaves the wait loop,
\* whatever frames the SDR delivers, also none, and without a stop request.
C9_RecordingEnds ==
  \A c \in Callers : (pc[c] = "scr_wait") ~> (pc[c] # "scr_wait")

\* C10: when the recorder has left the wait for a run and counts it, the
\* matrix written to the run's raw file is the sequence of the frames
\* delivered between start_record and finalization within the time budget.
C10_RawMatrixIsDelivered ==
  \A c \in Callers :
    (pc[c] = "scr_count" /\ snPc[c] = "none" /\ expRun = RunKey(c))
      => raw_written[expRun] = expected

\* ---- the RMS CSV (specification RmsSpec) ----

IsPrefix(s, t) == Len(s) <= Len(t) /\ \A i \in 1..Len(s) : t[i] = s[i]
SpecCells(row) == SubSeq(row, Len(MetaColumns) + 1, Len(row))

\* C11: over any write_csv call, the spec columns of the header before the
\* call are a prefix, in the same order, of the spec columns after it.
C11_ColumnsAppendOnly ==
  [][IsPrefix(ReadCsvSpecColumns(csv), ReadCsvSpecColumns(csv'))]_vars

\* a second or later call has left a header with a column that the call did
\* not bring: an old column was kept in its place
C11_Witness ==
  /\ rmsCall.n >= 2
  /\ \E i \in 1..Len(ReadCsvSpecColumns(csv)) :
       /\ ~Contains(rmsCall.ids, ReadCsvSpecColumns(csv)[i])
       /\ \E j \in (i + 1)..Len(ReadCsvSpecColumns(csv)) :
            Contains(rmsCall.ids, ReadCsvSpecColumns(csv)[j])

\* C12: after a write_csv call every data row has one cell per header
\* column, the cells that a historical row held before the call are
\* unchanged, and a historical row holds -1 in every column the call added.
C12_HistoricalRowsKept ==
  [][csv' # csv =>
       /\ \A r \in 2..Len(csv') : Len(csv'[r]) = Len(csv'[1])
       /\ \A r \in 2..Len(csv) :
            /\ \A i \in 1..Len(csv[r]) : csv'[r][i] = csv[r][i]
            /\ \A i \in (Len(csv[r]) + 1)..Len(csv'[1]) : csv'[r][i] = -1]_vars

\* C13: the row appended by a write_csv call holds -1 in every header column
\* whose id is not among the call's ids; its total is the sum of its spec
\* cells that are not -1 and its avg is that total divided by the number of
\* those cells, in the integer that round() makes of the quotient (0 when
\* there is none).
C13_RemovedSpecExcluded ==
  (rmsCall.n > 0 /\ ~rmsCall.raised) =>
    LET cols == ReadCsvSpecColumns(csv)
        row == csv[Len(csv)]
        kept == SelectSeq(SpecCells(row), LAMBDA v : v # -1)
    IN /\ Len(row) = Len(MetaColumns) + Len(cols)
       /\ \A i \in 1..Len(cols) :
            ~Contains(rmsCall.ids, cols[i]) => row[Len(MetaColumns) + i] = -1
       /\ row[5] = SumSeq(kept)
       /\ row[6] = IF kept = <<>> THEN 0 ELSE PyRoundDiv(SumSeq(kept), Len(kept))

\* a call without one of the header's ids has appended a row that holds -1
\* there and two values elsewhere
C13_Witness ==
  /\ rmsCall.n >= 2 /\ ~rmsCall.raised
  /\ \E i \in 1..Len(ReadCsvSpecColumns(csv)) :
       /\ ~Contains(rmsCall.ids, ReadCsvSpecColumns(csv)[i])
       /\ csv[Len(csv)][Len(MetaColumns) + i] = -1
  /\ Len(SelectSeq(SpecCells(csv[Len(csv)]), LAMBDA v : v # -1)) = 2

\* the callers that hold the recorder: on_record_start has returned true and
\* on_record_end has not run yet
HoldsRecorder == {c \in Callers : pc[c] \in {"chk1", "er", "ore"} \/ InSweep(c)}

\* C14: while a batch holds the recorder, the handler of POST /sdr-control
\* does not change Recorder.receiver, whenever the request arrived.
C14_ReceiverHeld ==
  [][(HoldsRecorder # {} /\ ctlPc = "act" /\ ctlPc' = "idle") => receiver' = receiver]_vars

C18_SkipHasNoEffect ==
  [][\A c \in Callers :
       (pc[c] = "guard" /\ pc'[c] = "idle")
         => UNCHANGED <<ctrVars, pipeVars, recVars, sinkVars, batchVars, fileVars>>]_vars

\* a call of the thread spawned by POST /start has returned at the guard
C18_Witness == skipped["http"] /\ pc["http"] = "idle" /\ recording

\* C16: the runs of a batch are started in sweep order (sets in plan order,
\* runs in spec order), and when start_record is about to be invoked for a
\* run the sink is not recording any earlier run of the batch
C16_RunsInOrder ==
  \A c \in Callers :
    pc[c] = "sr1" =>
      /\ Ord(loc[c].si, loc[c].ri) = blog[B(c)].lastStart + 1
      /\ \A j \in 1..(Ord(loc[c].si, loc[c].ri) - 1) :
           ~(is_recording /\ current_run = <<B(c), j>>)
\* start_record is about to be invoked for a later run of a later set, after
\* the runs before it were recorded
C16_Witness ==
  \E c \in Callers :
    /\ pc[c] = "sr1" /\ receiver # "none"
    /\ loc[c].si = 2 /\ Ord(loc[c].si, loc[c].ri) = 3
    /\ blog[B(c)].lastStart = 2
    /\ capture_start_time[<<B(c), 1>>] /\ capture_start_time[<<B(c), 2>>]

\* C17: a start_record call that finds the sink recording (or finalizing,
\* which keeps is_recording set) leaves rec_time, start_time, current_run,
\* the frame buffer, the flags and every capture_start_time as they were
C17_BusyStartRecordNoEffect ==
  [][\A c \in Callers :
       (pc[c] = "sr1" /\ pc'[c] # "sr1" /\ receiver # "none" /\ is_recording)
         => UNCHANGED <<rec_time, start_time, current_run, data, capture_start_time,
                        is_recording, is_finalizing>>]_vars
\* a caller whose start_record returned at the guard: it waits on the sink
\* for a run that was never stamped while the sink records another run
C17_Witness ==
  \E c \in Callers :
    /\ pc[c] = "scr_wait" /\ ~capture_start_time[RunKey(c)]
    /\ is_recording /\ current_run # NoRun /\ current_run # RunKey(c)

\* the positions of process_sets: the sets' processing, finalize and ROI
\* post-processing
ProcLabels == {"ps_set", "psd_run", "psd_db", "ps_chk", "ps_roi"}

\* C19: no step of the processing of a capture set, its ROI post-processing
\* included, changes note, min_db_val or max_db_val of the batch-level
\* CaptureParams
C19_BatchParamsIsolated ==
  [][\A c \in Callers :
       pc[c] \in ProcLabels =>
         /\ params'[B(c)].note = params[B(c)].note
         /\ params'[B(c)].min_db_val = params[B(c)].min_db_val
         /\ params'[B(c)].max_db_val = params[B(c)].max_db_val]_vars

\* C20 as stated: every CaptureRun used in a batch (recorded, handed to
\* process() for a dB configuration, or ROI virtual run) carries the batch's
\* counter, start time and date_string
C20_RunsShareCounter ==
  \A b \in Callers : \A u \in blog[b].used :
    /\ u.run.counter = params[b].counter
    /\ u.run.time = params[b].recording_start_datetime
    /\ u.run.date_string = DateString(params[b].recording_start_datetime)
\* C20 amended: the run handed to process() for dB configuration n of a
\* calibration batch carries counter k + n; every other run carries k; all
\* carry the batch's start time and date_string
C20_RunsCounterByConfig ==
  \A b \in Callers : \A u \in blog[b].used :
    /\ u.run.counter = params[b].counter + (IF params[b].is_calibration THEN u.cfg ELSE 0)
    /\ u.run.time = params[b].recording_start_datetime
    /\ u.run.date_string = DateString(params[b].recording_start_datetime)
\* a calibration batch that has processed a recorded run and an ROI virtual
\* run under the last dB configuration
C20_Witness ==
  \E b \in Callers :
    /\ params[b].is_calibration
    /\ \E u \in blog[b].used : u.kind = "processed" /\ u.cfg = NumDbConfigs - 1
    /\ \E u \in blog[b].used : u.kind = "roi" /\ u.cfg = NumDbConfigs - 1

\* C26: when a batch is at the top of the runs loop for its first run,
\* Recorder.stop_requested is set only if a stop was requested during this
\* batch: a stop of an earlier batch does not reach it
C26_StopStaysInBatch ==
  \A c \in Callers :
    (pc[c] = "scr_top" /\ loc[c].si = 1 /\ loc[c].ri = 1 /\ stop_requested)
      => blog[B(c)].stopDuring

\* C27: stop_now never finalizes a run (write, raw_filename, current_run =
\* None) that the streaming thread, past the tests of process_recording, is
\* about to finalize itself: it would dereference the cleared current_run
C27_SingleFinalizer ==
  [][\A t \in Stoppers :
       ~(snPc[t] = "sn2" /\ snPc'[t] = "none" /\ sdrPc = "f1" /\ current_run # NoRun)]_vars

\* C28: whenever Pipeline.recording is false and no execute_capture call is
\* under way, Recorder.recording is false as well
C28_RecorderIdleWithPipeline ==
  (~recording /\ \A c \in Callers : pc[c] \in {"idle", "guard", "done"}) => ~rec_recording

\* C29: the progress counters of every RecordingStatus satisfy
\* 0 <= current_job_number <= jobs_total_number
C29_JobNumberInRange ==
  \A c \in Callers :
    /\ 0 <= status[c].current_job_number
    /\ status[c].current_job_number <= status[c].jobs_total_number

\* C30: no message that a batch collected for a run leaves the buffer,
\* cleared by that batch, without having been written to the log CSV
C30_CollectedLogWritten == log_lost = {}

\* C22: once process_rois has run for a set of a batch, a virtual run exists
\* for an entry of the ROI store exactly when the entry's capture_spec_id is
\* the id of a run of that set with a raw_filename; an entry without source
\* run does not keep later entries from their virtual run; every virtual run
\* carries the raw_filename of its source run; and the step leaves the
\* recorder, the sink and the receiver as they are.
RoiDone(b) ==
  IF pc[b] \in {"ps_set", "psd_run", "psd_db", "ps_chk", "ts_guard", "ts_save", "ps_fin",
               "ps_roi", "ps_cal"}
    THEN 1..(loc[b].si - 1) ELSE {}

C21_OncePerHour ==
  \A f \in TimeSliceFiles : \A h \in 0..MaxHours : ts_writes[f][h] <= 1

\* C23: the rows of the daily grid are exactly the counters whose recording
\* hour lies in the time window of the highest counter of the day, whatever
\* grid_sort_latest_first and grid_max_rows are.
C23_GridShowsLatestWindow ==
  grid.done =>
    LET n == Len(grid.meta)
        Window(k) == WindowStart(ParseHour(grid.meta[k]), grid.window)
    IN {grid.rows[i] : i \in 1..Len(grid.rows)} = {k \in 1..n : Window(k) = Window(n)}

\* C24: save_roi_config(load_roi_config()) does not raise and leaves the ROI
\* file with the content it had.
C24_RoiRoundTrip ==
  roi_file.done => ~roi_file.raised /\ roi_file.after = roi_file.before

\* C25: the gains handed to the device lie in the device's range (RTL-SDR
\* RF 0..50; SDRplay RF -60..0 and IF -59..-20), a request outside the range
\* being set to the nearest end of the range with a warning.
C25_GainClamped ==
  gain.done =>
    LET Clamp(v, lo, hi) == IF v < lo THEN lo ELSE IF v > hi THEN hi ELSE v
    IN IF gain.device = "rtlsdr"
         THEN /\ gain.set_rf = Clamp(gain.rf_gain, 0, 50)
              /\ gain.warned <=> gain.set_rf # gain.rf_gain
         ELSE /\ gain.set_rf = Clamp(gain.rf_gain, -60, 0)
              /\ gain.set_if = Clamp(gain.if_gain, -59, -20)
              /\ gain.warned <=> (gain.set_rf # gain.rf_gain \/ gain.set_if # gain.if_gain)

====
